---- MODULE Spec2Model ----
(***************************************************************************)
(* State-machine model of the OptiSign dashboard scripts.                  *)
(*                                                                         *)
(* The repository carries the same dashboard in several page builds:       *)
(*   "modules" : src/unnamed/part_001 importing src/js/chart_utilities.js, *)
(*               src/js/data_aggregation.js and src/js/table_renderer.js   *)
(*   "inline"  : src/unnamed/part_000, everything inside one               *)
(*               DOMContentLoaded handler                                  *)
(* Definitions modelled from the inline build carry the suffix _inline;    *)
(* definitions without a suffix model the modules build.                   *)
(*                                                                         *)
(* JavaScript values: numbers are integers, null is Null, undefined is     *)
(* Undefined, strings that the code takes apart (routes, labels) are       *)
(* sequences of tokens in which the underscore is the token "_" and every  *)
(* other token is an underscore-free piece of text.  Non-ASCII text of the *)
(* source is written as an ASCII gloss, named in the comment next to it.   *)
(***************************************************************************)
EXTENDS Integers, Sequences, FiniteSets, TLC

Null == "<null>"
Undefined == "<undefined>"

Variants == {"modules", "inline"}

(***************************************************************************)
(* JavaScript arithmetic and array access                                  *)
(***************************************************************************)

\* a % n of JavaScript: the result takes the sign of the dividend
JsRem(a, n) == IF a >= 0 THEN a % n ELSE 0 - ((0 - a) % n)

\* arr[i] of JavaScript on a 0-based array: undefined outside 0..length-1
JsAt(arr, i) == IF i >= 0 /\ i < Len(arr) THEN arr[i + 1] ELSE Undefined

(***************************************************************************)
(* Palette cycler                                                          *)
(***************************************************************************)

CHART_COLORS ==
    << "rgb(255, 99, 132)", "rgb(54, 162, 235)", "rgb(255, 205, 86)",
       "rgb(75, 192, 192)", "rgb(153, 102, 255)", "rgb(255, 159, 64)",
       "rgb(201, 203, 207)", "rgb(255, 99, 255)", "rgb(99, 255, 132)",
       "rgb(132, 99, 255)", "rgb(255, 132, 99)", "rgb(99, 132, 255)" >>

CHART_BORDER_COLORS ==
    << "rgb(255, 99, 132)", "rgb(54, 162, 235)", "rgb(255, 205, 86)",
       "rgb(75, 192, 192)", "rgb(153, 102, 255)", "rgb(255, 159, 64)",
       "rgb(201, 203, 207)", "rgb(255, 99, 255)", "rgb(99, 255, 132)",
       "rgb(132, 99, 255)", "rgb(255, 132, 99)", "rgb(99, 132, 255)" >>

colors_inline ==
    << "rgba(0, 101, 126, 0.8)", "rgba(0, 58, 82, 0.8)",
       "rgba(40, 167, 69, 0.8)", "rgba(253, 126, 20, 0.8)",
       "rgba(111, 66, 193, 0.8)", "rgba(220, 53, 69, 0.8)",
       "rgba(23, 162, 184, 0.8)", "rgba(108, 117, 125, 0.8)" >>

borderColors_inline ==
    << "#00657e", "#003A52", "#218838", "#e68a00",
       "#5a32b2", "#c82333", "#138496", "#6c757d" >>

\* the fill palette and the border palette of a build
Palette(v) == IF v = "modules" THEN CHART_COLORS ELSE colors_inline
BorderPalette(v) == IF v = "modules" THEN CHART_BORDER_COLORS ELSE borderColors_inline

\* mutation: the counter is advanced before the color is read
getNextColor_preinc(ci) ==
    [color |-> JsAt(CHART_COLORS, JsRem(ci + 1, Len(CHART_COLORS))), colorIndex |-> ci + 1]

\* getNextColor of chart_utilities.js: the color read, the counter after
getNextColor(ci) ==
    [color |-> JsAt(CHART_COLORS, JsRem(ci, Len(CHART_COLORS))), colorIndex |-> ci + 1]

\* getNextColor of the inline build
getNextColor_inline(ci) ==
    [color |-> JsAt(colors_inline, JsRem(ci, Len(colors_inline))), colorIndex |-> ci + 1]

\* getNextBorderColor of chart_utilities.js: reads one behind the counter
getNextBorderColor(ci) ==
    JsAt(CHART_BORDER_COLORS, JsRem(ci - 1, Len(CHART_BORDER_COLORS)))

\* getNextBorderColor of the inline build: reads at the counter
getNextBorderColor_inline(ci) ==
    JsAt(borderColors_inline, JsRem(ci, Len(borderColors_inline)))

\* resetColorIndex of chart_utilities.js; the inline build assigns colorIndex = 0
resetColorIndex == 0

NextColorOf(v, ci) == IF v = "modules" THEN getNextColor(ci) ELSE getNextColor_inline(ci)
NextBorderOf(v, ci) == IF v = "modules" THEN getNextBorderColor(ci) ELSE getNextBorderColor_inline(ci)


(***************************************************************************)
(* Strings that the code splits: sequences of tokens, "_" is the           *)
(* underscore                                                              *)
(***************************************************************************)

\* position of the first "_" of s, 0 when s has none
FirstUnderscore(s) ==
    IF \E i \in 1..Len(s) : s[i] = "_"
    THEN CHOOSE i \in 1..Len(s) : s[i] = "_" /\ \A j \in 1..(i - 1) : s[j] # "_"
    ELSE 0

RECURSIVE split(_)
\* s.split('_'): the pieces between underscores, always at least one piece
split(s) ==
    LET i == FirstUnderscore(s) IN
    IF i = 0 THEN << s >>
    ELSE << SubSeq(s, 1, i - 1) >> \o split(SubSeq(s, i + 1, Len(s)))

\* parts.slice(1)
slice1(parts) == IF Len(parts) <= 1 THEN << >> ELSE Tail(parts)

RECURSIVE join(_)
\* parts.join('_')
join(parts) ==
    IF Len(parts) = 0 THEN << >>
    ELSE IF Len(parts) = 1 THEN parts[1]
    ELSE parts[1] \o << "_" >> \o join(Tail(parts))

\* row.route.split('_').slice(1).join('_')
stripSectionPrefix(route) == join(slice1(split(route)))

(***************************************************************************)
(* Route-key maps                                                          *)
(***************************************************************************)

IndexTypes == {"KCCI", "SCFI", "WCI", "IACI", "BLANK_SAILING", "FBX", "XSI", "MBCI"}

\* the family name as the text that prefixes a table route
SectionPrefix ==
    [ KCCI |-> << "KCCI" >>, SCFI |-> << "SCFI" >>, WCI |-> << "WCI" >>,
      IACI |-> << "IACI" >>, BLANK_SAILING |-> << "BLANK", "_", "SAILING" >>,
      FBX |-> << "FBX" >>, XSI |-> << "XSI" >>, MBCI |-> << "MBCI" >> ]

\* routeToDataKeyMap.KCCI (part_001:21)
KCCI_map ==
       (<< "ko[Composite Index]" >> :> "KCCI_ko[Composite Index]")
    @@ (<< "ko[US West Coast]" >> :> "KCCI_ko[US West Coast]")
    @@ (<< "ko[US East Coast]" >> :> "KCCI_ko[US East Coast]")
    @@ (<< "ko[Europe]" >> :> "KCCI_ko[Europe]")
    @@ (<< "ko[Mediterranean]" >> :> "KCCI_ko[Mediterranean]")
    @@ (<< "ko[Middle East]" >> :> "KCCI_ko[Middle East]")
    @@ (<< "ko[Australia]" >> :> "KCCI_ko[Australia]")
    @@ (<< "ko[South America East Coast]" >> :> "KCCI_ko[South America East Coast]")
    @@ (<< "ko[South America West Coast]" >> :> "KCCI_ko[South America West Coast]")
    @@ (<< "ko[South Africa]" >> :> "KCCI_ko[South Africa]")
    @@ (<< "ko[West Africa]" >> :> "KCCI_ko[West Africa]")
    @@ (<< "ko[China]" >> :> "KCCI_ko[China]")
    @@ (<< "ko[Japan]" >> :> "KCCI_ko[Japan]")
    @@ (<< "ko[Southeast Asia]" >> :> "KCCI_ko[Southeast Asia]")

\* routeToDataKeyMap.SCFI (part_001:37)
SCFI_map ==
       (<< "ko[Composite Index]" >> :> "SCFI_ko[Composite Index]")
    @@ (<< "ko[Europe] (ko[base port])" >> :> "SCFI_ko[Europe] (ko[base port])")
    @@ (<< "ko[Mediterranean] (ko[base port])" >> :> "SCFI_ko[Mediterranean] (ko[base port])")
    @@ (<< "ko[US West Coast] (ko[base port])" >> :> "SCFI_ko[US West Coast] (ko[base port])")
    @@ (<< "ko[US East Coast] (ko[base port])" >> :> "SCFI_ko[US East Coast] (ko[base port])")
    @@ (<< "ko[Persian Gulf]/ko[Red Sea] (ko[Dubai])" >> :> "SCFI_ko[Persian Gulf]/ko[Red Sea] (ko[Dubai])")
    @@ (<< "ko[Australia]/ko[New Zealand] (ko[Melbourne])" >> :> "SCFI_ko[Australia]/ko[New Zealand] (ko[Melbourne])")
    @@ (<< "ko[East/West Africa] (ko[Lagos])" >> :> "SCFI_ko[East/West Africa] (ko[Lagos])")
    @@ (<< "ko[South Africa] (ko[Durban])" >> :> "SCFI_ko[South Africa] (ko[Durban])")
    @@ (<< "ko[West Japan] (ko[base port])" >> :> "SCFI_ko[West Japan] (ko[base port])")
    @@ (<< "ko[East Japan] (ko[base port])" >> :> "SCFI_ko[East Japan] (ko[base port])")
    @@ (<< "ko[Southeast Asia] (ko[Singapore])" >> :> "SCFI_ko[Southeast Asia] (ko[Singapore])")
    @@ (<< "ko[Korea] (ko[Busan])" >> :> "SCFI_ko[Korea] (ko[Busan])")
    @@ (<< "ko[Central-South America West Coast] (ko[Manzanillo])" >> :> "SCFI_ko[Central-South America West Coast] (ko[Manzanillo])")

\* routeToDataKeyMap.WCI (part_001:53)
WCI_map ==
       (<< "ko[Composite Index]" >> :> "WCI_ko[Composite Index]")
    @@ (<< "ko[Shanghai] -> ko[Rotterdam]" >> :> "WCI_ko[Shanghai] -> ko[Rotterdam]")
    @@ (<< "ko[Rotterdam] -> ko[Shanghai]" >> :> "WCI_ko[Rotterdam] -> ko[Shanghai]")
    @@ (<< "ko[Shanghai] -> ko[Genoa]" >> :> "WCI_ko[Shanghai] -> ko[Genoa]")
    @@ (<< "ko[Shanghai] -> ko[Los Angeles]" >> :> "WCI_ko[Shanghai] -> ko[Los Angeles]")
    @@ (<< "ko[Los Angeles] -> ko[Shanghai]" >> :> "WCI_ko[Los Angeles] -> ko[Shanghai]")
    @@ (<< "ko[Shanghai] -> ko[New York]" >> :> "WCI_ko[Shanghai] -> ko[New York]")
    @@ (<< "ko[New York] -> ko[Rotterdam]" >> :> "WCI_ko[New York] -> ko[Rotterdam]")
    @@ (<< "ko[Rotterdam] -> ko[New York]" >> :> "WCI_ko[Rotterdam] -> ko[New York]")

\* routeToDataKeyMap.IACI (part_001:64)
IACI_map ==
       (<< "ko[Composite Index]" >> :> "IACI_ko[Composite Index]")

\* routeToDataKeyMap.BLANK_SAILING (part_001:67)
BLANK_SAILING_map ==
       (<< "Gemini Cooperation" >> :> "BLANK_SAILING_Gemini_Cooperation")
    @@ (<< "MSC" >> :> "BLANK_SAILING_MSC")
    @@ (<< "OCEAN Alliance" >> :> "BLANK_SAILING_OCEAN_Alliance")
    @@ (<< "Premier Alliance" >> :> "BLANK_SAILING_Premier_Alliance")
    @@ (<< "Others/Independent" >> :> "BLANK_SAILING_Others_Independent")
    @@ (<< "Total" >> :> "BLANK_SAILING_ko[Composite Index]")

\* routeToDataKeyMap.FBX (part_001:76)
FBX_map ==
       (<< "ko[Composite Index]" >> :> "FBX_ko[Composite Index]")
    @@ (<< "ko[China/East Asia] -> ko[US West Coast]" >> :> "FBX_ko[China/East Asia] -> ko[US West Coast]")
    @@ (<< "ko[US West Coast] -> ko[China/East Asia]" >> :> "FBX_ko[US West Coast] -> ko[China/East Asia]")
    @@ (<< "ko[China/East Asia] -> ko[US East Coast]" >> :> "FBX_ko[China/East Asia] -> ko[US East Coast]")
    @@ (<< "ko[US East Coast] -> ko[China/East Asia]" >> :> "FBX_ko[US East Coast] -> ko[China/East Asia]")
    @@ (<< "ko[China/East Asia] -> ko[North Europe]" >> :> "FBX_ko[China/East Asia] -> ko[North Europe]")
    @@ (<< "ko[North Europe] -> ko[China/East Asia]" >> :> "FBX_ko[North Europe] -> ko[China/East Asia]")
    @@ (<< "ko[China/East Asia] -> ko[Mediterranean]" >> :> "FBX_ko[China/East Asia] -> ko[Mediterranean]")
    @@ (<< "ko[Mediterranean] -> ko[China/East Asia]" >> :> "FBX_ko[Mediterranean] -> ko[China/East Asia]")
    @@ (<< "ko[US East Coast] -> ko[North Europe]" >> :> "FBX_ko[US East Coast] -> ko[North Europe]")
    @@ (<< "ko[North Europe] -> ko[US East Coast]" >> :> "FBX_ko[North Europe] -> ko[US East Coast]")
    @@ (<< "ko[Europe] -> ko[South America East Coast]" >> :> "FBX_ko[Europe] -> ko[South America East Coast]")
    @@ (<< "ko[Europe] -> ko[South America West Coast]" >> :> "FBX_ko[Europe] -> ko[South America West Coast]")

\* routeToDataKeyMap.XSI (part_001:92)
XSI_map ==
       (<< "ko[East Asia] -> ko[North Europe]" >> :> "XSI_ko[East Asia] -> ko[North Europe]")
    @@ (<< "ko[North Europe] -> ko[East Asia]" >> :> "XSI_ko[North Europe] -> ko[East Asia]")
    @@ (<< "ko[East Asia] -> ko[US West Coast]" >> :> "XSI_ko[East Asia] -> ko[US West Coast]")
    @@ (<< "ko[US West Coast] -> ko[East Asia]" >> :> "XSI_ko[US West Coast] -> ko[East Asia]")
    @@ (<< "ko[East Asia] -> ko[South America East Coast]" >> :> "XSI_ko[East Asia] -> ko[South America East Coast]")
    @@ (<< "ko[North Europe] -> ko[US East Coast]" >> :> "XSI_ko[North Europe] -> ko[US East Coast]")
    @@ (<< "ko[US East Coast] -> ko[North Europe]" >> :> "XSI_ko[US East Coast] -> ko[North Europe]")
    @@ (<< "ko[North Europe] -> ko[South America East Coast]" >> :> "XSI_ko[North Europe] -> ko[South America East Coast]")

\* routeToDataKeyMap.MBCI (part_001:102)
MBCI_map ==
       (<< "MBCI" >> :> "MBCI_MBCI")

routeToDataKeyMap ==
    [ KCCI |-> KCCI_map,
      SCFI |-> SCFI_map,
      WCI |-> WCI_map,
      IACI |-> IACI_map,
      BLANK_SAILING |-> BLANK_SAILING_map,
      FBX |-> FBX_map,
      XSI |-> XSI_map,
      MBCI |-> MBCI_map ]

\* routeToDataKeyMap.KCCI (part_000:338)
KCCI_map_inline ==
       (<< "ko[Composite Index]" >> :> "KCCI_Composite_Index")
    @@ (<< "ko[US West Coast]" >> :> "KCCI_US_West_Coast")
    @@ (<< "ko[US East Coast]" >> :> "KCCI_US_East_Coast")
    @@ (<< "ko[Europe]" >> :> "KCCI_Europe")
    @@ (<< "ko[Mediterranean]" >> :> "KCCI_Mediterranean")
    @@ (<< "ko[Middle East]" >> :> "KCCI_Middle_East")
    @@ (<< "ko[Australia]" >> :> "KCCI_Australia")
    @@ (<< "ko[South America East Coast]" >> :> "KCCI_South_America_East_Coast")
    @@ (<< "ko[South America West Coast]" >> :> "KCCI_South_America_West_Coast")
    @@ (<< "ko[South Africa]" >> :> "KCCI_South_Africa")
    @@ (<< "ko[West Africa]" >> :> "KCCI_West_Africa")
    @@ (<< "ko[China]" >> :> "KCCI_China")
    @@ (<< "ko[Japan]" >> :> "KCCI_Japan")
    @@ (<< "ko[Southeast Asia]" >> :> "KCCI_Southeast_Asia")

\* routeToDataKeyMap.SCFI (part_000:354)
SCFI_map_inline ==
       (<< "ko[Composite Index]" >> :> "SCFI_Composite_Index")
    @@ (<< "ko[US West Coast]" >> :> "SCFI_US_West_Coast")
    @@ (<< "ko[US East Coast]" >> :> "SCFI_US_East_Coast")
    @@ (<< "ko[North Europe]" >> :> "SCFI_North_Europe")
    @@ (<< "ko[Mediterranean]" >> :> "SCFI_Mediterranean")
    @@ (<< "ko[Southeast Asia]" >> :> "SCFI_Southeast_Asia")
    @@ (<< "ko[Middle East]" >> :> "SCFI_Middle_East")
    @@ (<< "ko[Australia]/ko[New Zealand]" >> :> "SCFI_Australia_New_Zealand")
    @@ (<< "ko[South America]" >> :> "SCFI_South_America")
    @@ (<< "ko[Japan West Coast]" >> :> "SCFI_Japan_West_Coast")
    @@ (<< "ko[Japan East Coast]" >> :> "SCFI_Japan_East_Coast")
    @@ (<< "ko[Korea]" >> :> "SCFI_Korea")
    @@ (<< "ko[Eastern/Western Africa]" >> :> "SCFI_East_West_Africa")
    @@ (<< "ko[Rep. South Africa]" >> :> "SCFI_South_Africa")

\* routeToDataKeyMap.WCI (part_000:370)
WCI_map_inline ==
       (<< "ko[Composite Index]" >> :> "WCI_Composite_Index")
    @@ (<< "ko[Shanghai] -> ko[Rotterdam]" >> :> "WCI_Shanghai_Rotterdam")
    @@ (<< "ko[Rotterdam] -> ko[Shanghai]" >> :> "WCI_Rotterdam_Shanghai")
    @@ (<< "ko[Shanghai] -> ko[Genoa]" >> :> "WCI_Shanghai_Genoa")
    @@ (<< "ko[Shanghai] -> ko[Los Angeles]" >> :> "WCI_Shanghai_Los_Angeles")
    @@ (<< "ko[Los Angeles] -> ko[Shanghai]" >> :> "WCI_Los_Angeles_Shanghai")
    @@ (<< "ko[Shanghai] -> ko[New York]" >> :> "WCI_Shanghai_New_York")
    @@ (<< "ko[New York] -> ko[Rotterdam]" >> :> "WCI_New_York_Rotterdam")
    @@ (<< "ko[Rotterdam] -> ko[New York]" >> :> "WCI_Rotterdam_New_York")

\* routeToDataKeyMap.IACI (part_000:381)
IACI_map_inline ==
       (<< "ko[Composite Index]" >> :> "IACI_Composite_Index")

\* routeToDataKeyMap.BLANK_SAILING (part_000:384)
BLANK_SAILING_map_inline ==
       (<< "Gemini Cooperation" >> :> "BLANK_SAILING_Gemini_Cooperation")
    @@ (<< "MSC" >> :> "BLANK_SAILING_MSC")
    @@ (<< "OCEAN Alliance" >> :> "BLANK_SAILING_OCEAN_Alliance")
    @@ (<< "Premier Alliance" >> :> "BLANK_SAILING_Premier_Alliance")
    @@ (<< "Others/Independent" >> :> "BLANK_SAILING_Others_Independent")
    @@ (<< "Total" >> :> "BLANK_SAILING_Total")

\* routeToDataKeyMap.FBX (part_000:392)
FBX_map_inline ==
       (<< "ko[Global Container Freight Index]" >> :> "FBX_Composite_Index")
    @@ (<< "ko[China/East Asia] -> ko[US West Coast]" >> :> "FBX_China_EA_US_West_Coast")
    @@ (<< "ko[US West Coast] -> ko[China/East Asia]" >> :> "FBX_US_West_Coast_China_EA")
    @@ (<< "ko[China/East Asia] -> ko[US East Coast]" >> :> "FBX_China_EA_US_East_Coast")
    @@ (<< "ko[US East Coast] -> ko[China/East Asia]" >> :> "FBX_US_East_Coast_China_EA")
    @@ (<< "ko[China/East Asia] -> ko[North Europe]" >> :> "FBX_China_EA_North_Europe")
    @@ (<< "ko[North Europe] -> ko[China/East Asia]" >> :> "FBX_North_Europe_China_EA")
    @@ (<< "ko[China/East Asia] -> ko[Mediterranean]" >> :> "FBX_China_EA_Mediterranean")
    @@ (<< "ko[Mediterranean] -> ko[China/East Asia]" >> :> "FBX_Mediterranean_China_EA")
    @@ (<< "ko[US East Coast] -> ko[North Europe]" >> :> "FBX_US_East_Coast_North_Europe")
    @@ (<< "ko[North Europe] -> ko[US East Coast]" >> :> "FBX_North_Europe_US_East_Coast")
    @@ (<< "ko[Europe] -> ko[South America East Coast]" >> :> "FBX_Europe_South_America_East_Coast")
    @@ (<< "ko[Europe] -> ko[South America West Coast]" >> :> "FBX_Europe_South_America_West_Coast")

\* routeToDataKeyMap.XSI (part_000:407)
XSI_map_inline ==
       (<< "ko[East Asia] -> ko[North Europe]" >> :> "XSI_East_Asia_North_Europe")
    @@ (<< "ko[North Europe] -> ko[East Asia]" >> :> "XSI_North_Europe_East_Asia")
    @@ (<< "ko[East Asia] -> ko[US West Coast]" >> :> "XSI_East_Asia_US_West_Coast")
    @@ (<< "ko[US West Coast] -> ko[East Asia]" >> :> "XSI_US_West_Coast_East_Asia")
    @@ (<< "ko[East Asia] -> ko[South America East Coast]" >> :> "XSI_East_Asia_South_America_East_Coast")
    @@ (<< "ko[North Europe] -> ko[US East Coast]" >> :> "XSI_North_Europe_US_East_Coast")
    @@ (<< "ko[US East Coast] -> ko[North Europe]" >> :> "XSI_US_East_Coast_North_Europe")
    @@ (<< "ko[North Europe] -> ko[South America East Coast]" >> :> "XSI_North_Europe_South_America_East_Coast")

\* routeToDataKeyMap.MBCI (part_000:417)
MBCI_map_inline ==
       (<< "MBCI" >> :> "MBCI_Value")

routeToDataKeyMap_inline ==
    [ KCCI |-> KCCI_map_inline,
      SCFI |-> SCFI_map_inline,
      WCI |-> WCI_map_inline,
      IACI |-> IACI_map_inline,
      BLANK_SAILING |-> BLANK_SAILING_map_inline,
      FBX |-> FBX_map_inline,
      XSI |-> XSI_map_inline,
      MBCI |-> MBCI_map_inline ]

\* the map of a build
MapOf(v) == IF v = "modules" THEN routeToDataKeyMap ELSE routeToDataKeyMap_inline

\* names every object literal inherits from Object.prototype (the ones
\* without an underscore)
ObjectPrototypeKeys ==
    { << "constructor" >>, << "hasOwnProperty" >>, << "isPrototypeOf" >>,
      << "propertyIsEnumerable" >>, << "toLocaleString" >>, << "toString" >>,
      << "valueOf" >> }

\* the value of an inherited property: a function object, neither null nor undefined
InheritedFunction == "<function>"

\* the map with the routes of `excl` mapped to null (intentional exclusion)
WithExcluded(mapping, excl) ==
    [ L \in DOMAIN mapping |-> IF L \in excl THEN Null ELSE mapping[L] ]

\* mapping[originalRouteName]: own key, else inherited property, else undefined
resolve(mapping, label) ==
    IF label \in DOMAIN mapping THEN mapping[label]
    ELSE IF label \in ObjectPrototypeKeys THEN InheritedFunction
    ELSE Undefined


(***************************************************************************)
(* Values that may be numbers                                              *)
(*                                                                         *)
(* Where the code holds a number or null / undefined / "" in the same      *)
(* place (a point's y, current_index), the value is a tagged tuple.        *)
(* A time-series record is [date, vals, nulls]: vals maps the keys that    *)
(* hold a number to it, nulls is the set of keys that hold null, every     *)
(* other key is absent.                                                    *)
(***************************************************************************)

Num(n) == << "number", n >>
Str(t) == << "string", t >>
NullV == << "null" >>
UndefinedV == << "undefined" >>

\* Object.keys(item) without 'date'
KeysOf(item) == DOMAIN item.vals \cup item.nulls

\* item[key]
ItemGet(item, key) ==
    IF key \in DOMAIN item.vals THEN Num(item.vals[key])
    ELSE IF key \in item.nulls THEN NullV
    ELSE UndefinedV

(***************************************************************************)
(* Calendar: dates are << year, month, day >>, a month is the index        *)
(* year * 12 + (month - 1)                                                 *)
(***************************************************************************)

IsLeap(y) == (y % 4 = 0 /\ y % 100 # 0) \/ y % 400 = 0

DaysInMonth(y, m) ==
    IF m = 2 THEN (IF IsLeap(y) THEN 29 ELSE 28)
    ELSE IF m \in {4, 6, 9, 11} THEN 30 ELSE 31

MonthIndex(y, m) == y * 12 + (m - 1)
YearOfIndex(i) == i \div 12
MonthOfIndex(i) == (i % 12) + 1

PrevDay(d) ==
    IF d[3] > 1 THEN << d[1], d[2], d[3] - 1 >>
    ELSE IF d[2] > 1 THEN << d[1], d[2] - 1, DaysInMonth(d[1], d[2] - 1) >>
    ELSE << d[1] - 1, 12, 31 >>

\* new Date('YYYY-MM-DD') is midnight UTC; getFullYear / getMonth / getDate
\* read it in local time: the same day at or east of UTC, the day before
\* west of UTC
LocalDate(d, west) == IF west THEN PrevDay(d) ELSE d

\* the month getFullYear() / getMonth() give for new Date(item.date)
LocalMonth(d, west) == MonthIndex(LocalDate(d, west)[1], LocalDate(d, west)[2])

\* new Date(a.date) - new Date(b.date) < 0
DateBefore(a, b) ==
    \/ a[1] < b[1]
    \/ a[1] = b[1] /\ a[2] < b[2]
    \/ a[1] = b[1] /\ a[2] = b[2] /\ a[3] < b[3]

\* the records of sorted `acc` with item put after every record not later than it
InsertByDate(acc, item) ==
    LET k == Cardinality({ i \in 1..Len(acc) : ~DateBefore(item.date, acc[i].date) }) IN
    SubSeq(acc, 1, k) \o << item >> \o SubSeq(acc, k + 1, Len(acc))

RECURSIVE sortByDate(_)
\* data.sort((a, b) => new Date(a.date) - new Date(b.date)): stable, ascending
sortByDate(data) ==
    IF Len(data) = 0 THEN << >>
    ELSE InsertByDate(sortByDate(SubSeq(data, 1, Len(data) - 1)), data[Len(data)])

(***************************************************************************)
(* Monthly aggregator                                                      *)
(*                                                                         *)
(* An aggregated value is the fraction [num, den]: sum / count is          *)
(* [sum, count], an undivided sum is [sum, 1].                             *)
(***************************************************************************)

Frac(n, d) == [num |-> n, den |-> d]
FracEq(p, q) == p.num * q.den = q.num * p.den

\* the records of `data` whose local month is `mi`, in order
InMonth(data, mi, west) == SelectSeq(data, LAMBDA it : LocalMonth(it.date, west) = mi)

RECURSIVE SumOf(_, _)
\* the sum of the numbers the records hold under `key`
SumOf(items, key) ==
    IF Len(items) = 0 THEN 0
    ELSE (IF key \in DOMAIN items[1].vals THEN items[1].vals[key] ELSE 0)
         + SumOf(Tail(items), key)

\* how many of the records hold a number under `key`
CountOf(items, key) == Cardinality({ i \in 1..Len(items) : key \in DOMAIN items[i].vals })

\* the keys some record holds a number under
NumericKeys(items) == UNION { DOMAIN items[i].vals : i \in 1..Len(items) }

\* the months of the sequence of records, without repetition
MonthsOf(data, west) == { LocalMonth(data[i].date, west) : i \in 1..Len(data) }

RECURSIVE AscendingSeq(_)
\* the numbers of a set in ascending order
AscendingSeq(S) ==
    IF S = {} THEN << >>
    ELSE LET lo == CHOOSE x \in S : \A y \in S : x <= y IN
         << lo >> \o AscendingSeq(S \ {lo})

\* aggregatedData.slice(-n) when aggregatedData.length > n
LastN(seq, n) == IF Len(seq) > n THEN SubSeq(seq, Len(seq) - n + 1, Len(seq)) ELSE seq

\* one month record of data_aggregation.js: every key that holds a number in
\* some record of the month carries the sum; no other key exists
sumMonthRecord(data, mi, west) ==
    LET items == InMonth(data, mi, west) IN
    [ date  |-> << YearOfIndex(mi), MonthOfIndex(mi), 1 >>,
      vals  |-> [ k \in NumericKeys(items) |-> Frac(SumOf(items, k), 1) ],
      nulls |-> {} ]

\* aggregateDataByMonth of data_aggregation.js
aggregateDataByMonth(rawData, monthsToDisplay, west) ==
    IF Len(rawData) = 0 THEN [ aggregatedData |-> << >>, monthlyLabels |-> << >> ]
    ELSE
      LET data   == sortByDate(rawData)
          months == AscendingSeq(MonthsOf(data, west))
          all    == [ i \in 1..Len(months) |-> sumMonthRecord(data, months[i], west) ]
          kept   == LastN(all, monthsToDisplay)
      IN [ aggregatedData |-> kept,
           monthlyLabels  |-> [ i \in 1..Len(kept) |-> kept[i].date ] ]

\* startDate.setMonth(latestDate.getMonth() - (numMonths - 1)) followed by
\* new Date(startDate.getFullYear(), startDate.getMonth(), 1): the day of
\* the month is kept, and a day the target month does not have rolls over
\* into the month after it
startMonth_inline(latest, numMonths) ==
    LET target == MonthIndex(latest[1], latest[2]) - (numMonths - 1) IN
    IF latest[3] > DaysInMonth(YearOfIndex(target), MonthOfIndex(target))
    THEN target + 1 ELSE target

\* one month record of the inline build: the keys of the first record, each
\* the mean of the month's numbers or null
meanMonthRecord_inline(data, mi, allDataKeys, west) ==
    LET items   == InMonth(data, mi, west)
        present == { k \in allDataKeys : CountOf(items, k) > 0 }
    IN [ date  |-> << YearOfIndex(mi), MonthOfIndex(mi), 1 >>,
         vals  |-> [ k \in present |-> Frac(SumOf(items, k), CountOf(items, k)) ],
         nulls |-> allDataKeys \ present ]

\* aggregateDataByMonth of the inline build
aggregateDataByMonth_inline(rawData, numMonths, west) ==
    IF Len(rawData) = 0 THEN [ aggregatedData |-> << >>, monthlyLabels |-> << >> ]
    ELSE
      LET data        == sortByDate(rawData)
          latest      == LocalDate(data[Len(data)].date, west)
          latestMonth == MonthIndex(latest[1], latest[2])
          first       == startMonth_inline(latest, numMonths)
          allMonthKeys == [ i \in 1..(latestMonth - first + 1) |-> first + i - 1 ]
          allDataKeys == KeysOf(data[1])
          out == [ i \in 1..Len(allMonthKeys) |->
                     meanMonthRecord_inline(data, allMonthKeys[i], allDataKeys, west) ]
      IN [ aggregatedData |-> out,
           monthlyLabels  |-> [ i \in 1..Len(out) |-> out[i].date ] ]


\* the number of months chart.js seeds: for (let i = 0; i < 12; i++)
CarouselMonths == 12

\* one month record of chart.js: every value key, the undivided sum of the
\* month's numbers or null
sumMonthRecord_carousel(data, mi, valueKeys) ==
    LET items   == InMonth(data, mi, FALSE)
        present == { k \in valueKeys : CountOf(items, k) > 0 }
    IN [ date  |-> << YearOfIndex(mi), MonthOfIndex(mi), 1 >>,
         vals  |-> [ k \in present |-> Frac(SumOf(items, k), 1) ],
         nulls |-> valueKeys \ present ]

\* aggregateDataByMonth of chart.js: the twelve months that end with the
\* month of `now`, dates read as local calendar dates by dayjs
aggregateDataByMonth_carousel(data, valueKeys, now) ==
    LET last == MonthIndex(now[1], now[2])
        out  == [ i \in 1..CarouselMonths |->
                    sumMonthRecord_carousel(data, last - CarouselMonths + i, valueKeys) ]
    IN [ aggregatedData |-> out,
         monthlyLabels  |-> [ i \in 1..Len(out) |-> out[i].date ] ]

(***************************************************************************)
(* Dataset builder                                                         *)
(*                                                                         *)
(* A table row is [route, current_index]; the builder's result is the      *)
(* datasets, the console lines it wrote and the palette counter it left.   *)
(* emittedRows is history: the index of the table row behind each dataset. *)
(***************************************************************************)

\* the tokens of the model's labels that contain one of the texts the
\* borderWidth test looks for with includes(): ko[Composite Index],
\* ko[Global Container Freight Index], 'US$/40ft', and in the modules build
\* also 'MBCI' and 'Total'
ThickTokens(v) ==
    IF v = "modules"
    THEN { "ko[Composite Index]", "ko[Global Container Freight Index]", "MBCI", "Total" }
    ELSE { "ko[Composite Index]", "ko[Global Container Freight Index]" }

\* the borderWidth expression
borderWidthOf(v, label) ==
    IF \E i \in 1..Len(label) : label[i] \in ThickTokens(v) THEN 2 ELSE 1

\* mutation: the test on current_index is left out
passesGuard_ignoreIndex(dataKey, row) ==
    dataKey # Null /\ dataKey # Undefined

\* dataKey !== null && dataKey !== undefined && row.current_index !== ""
passesGuard(dataKey, row) ==
    dataKey # Null /\ dataKey # Undefined /\ row.current_index # Str("")

\* chartData.map(item => ({ x: item.date, y: item[dataKey] }))
mapPoints(chartData, dataKey) ==
    [ i \in 1..Len(chartData) |-> [ x |-> chartData[i].date, y |-> ItemGet(chartData[i], dataKey) ] ]

\* mutation: only undefined is filtered out, null points stay
filterPoints_keepNull(mappedData) ==
    SelectSeq(mappedData, LAMBDA point : point.y # UndefinedV)

\* mappedData.filter(point => point.y !== null && point.y !== undefined)
filterPoints(mappedData) ==
    SelectSeq(mappedData, LAMBDA point : point.y # NullV /\ point.y # UndefinedV)

\* filteredMappedData.length > 0
hasPoints(filteredMappedData) == Len(filteredMappedData) > 0

\* mutation: the null branch is gone, null falls into the warning
skipLine_collapsed(dataKey, i) ==
    [ level |-> "warn", kind |-> "noDataKeyOrEmptyIndex", row |-> i ]

\* mutation: a row that fails the guard with a non-null dataKey writes an
\* info line in place of the warning
skipLine_quiet(dataKey, i) ==
    IF dataKey = Null
    THEN [ level |-> "info", kind |-> "mappedToNull", row |-> i ]
    ELSE [ level |-> "info", kind |-> "noDataKeyOrEmptyIndex", row |-> i ]

\* the console line of a row that fails the guard: console.info for a null
\* mapping, console.warn otherwise
skipLine(dataKey, i) ==
    IF dataKey = Null
    THEN [ level |-> "info", kind |-> "mappedToNull", row |-> i ]
    ELSE [ level |-> "warn", kind |-> "noDataKeyOrEmptyIndex", row |-> i ]

\* mutation: a colour is drawn for every row visited, also for a row that is
\* skipped
buildRow_advanceOnSkip(v, mapping, chartData, tableRows, i, acc) ==
    LET row == tableRows[i]
        originalRouteName == stripSectionPrefix(row.route)
        dataKey == resolve(mapping, originalRouteName)
        filteredMappedData == filterPoints(mapPoints(chartData, dataKey))
        next == NextColorOf(v, acc.colorIndex)
    IN
    IF passesGuard(dataKey, row) /\ hasPoints(filteredMappedData) THEN
        [ acc EXCEPT
            !.datasets = Append(@, [ label |-> originalRouteName,
                                     data |-> filteredMappedData,
                                     backgroundColor |-> next.color,
                                     borderColor |-> NextBorderOf(v, next.colorIndex),
                                     borderWidth |-> borderWidthOf(v, originalRouteName),
                                     fill |-> FALSE ]),
            !.emittedRows = Append(@, i),
            !.colorIndex = next.colorIndex ]
    ELSE
        [ acc EXCEPT !.log = Append(@, [ level |-> "warn", kind |-> "skipped", row |-> i ]),
                     !.colorIndex = next.colorIndex ]

\* the body of tableRows.forEach for row i, from the result so far
buildRow(v, mapping, chartData, tableRows, i, acc) ==
    LET row == tableRows[i]
        originalRouteName == stripSectionPrefix(row.route)
        dataKey == resolve(mapping, originalRouteName)
        filteredMappedData == filterPoints(mapPoints(chartData, dataKey))
        next == NextColorOf(v, acc.colorIndex)
    IN
    IF passesGuard(dataKey, row) THEN
        IF hasPoints(filteredMappedData) THEN
            [ acc EXCEPT
                !.datasets = Append(@, [ label |-> originalRouteName,
                                         data |-> filteredMappedData,
                                         backgroundColor |-> next.color,
                                         borderColor |-> NextBorderOf(v, next.colorIndex),
                                         borderWidth |-> borderWidthOf(v, originalRouteName),
                                         fill |-> FALSE ]),
                !.emittedRows = Append(@, i),
                !.colorIndex = next.colorIndex ]
        ELSE
            [ acc EXCEPT !.log = Append(@, [ level |-> "warn", kind |-> "noValidPoints", row |-> i ]) ]
    ELSE
        [ acc EXCEPT !.log = Append(@, skipLine(dataKey, i)) ]

RECURSIVE buildRows_backwards(_, _, _, _, _, _)
\* mutation: the rows are visited from the last to the first
buildRows_backwards(v, mapping, chartData, tableRows, i, acc) ==
    IF i > Len(tableRows) THEN acc
    ELSE buildRows_backwards(v, mapping, chartData, tableRows, i + 1,
                             buildRow(v, mapping, chartData, tableRows,
                                      Len(tableRows) + 1 - i, acc))

RECURSIVE buildRows(_, _, _, _, _, _)
\* tableRows.forEach from row i on
buildRows(v, mapping, chartData, tableRows, i, acc) ==
    IF i > Len(tableRows) THEN acc
    ELSE buildRows(v, mapping, chartData, tableRows, i + 1,
                   buildRow(v, mapping, chartData, tableRows, i, acc))

\* createDatasetsFromTableRows(indexType, chartData, tableRows), run with the
\* palette counter at ci and the given routes of the family mapped to null
createDatasetsFromTableRows(v, type, excl, chartData, tableRows, ci) ==
    IF type \notin DOMAIN MapOf(v)
    THEN [ datasets |-> << >>, emittedRows |-> << >>,
           log |-> << [ level |-> "warn", kind |-> "noMapping", row |-> 0 ] >>,
           colorIndex |-> ci ]
    ELSE buildRows(v, WithExcluded(MapOf(v)[type], excl), chartData, tableRows, 1,
                   [ datasets |-> << >>, emittedRows |-> << >>, log |-> << >>,
                     colorIndex |-> ci ])

(***************************************************************************)
(* Chart renderer                                                          *)
(*                                                                         *)
(* An option object is the function from the paths of its leaves to their  *)
(* values: { scales: { y: { ticks: { count: 5 } } } } is                   *)
(* << "scales", "y", "ticks", "count" >> :> "5".  Values are written as    *)
(* text.  A chart instance is [id, mount].                                 *)
(***************************************************************************)

\* path p lies at or under the object at path pre
StartsWith(p, pre) == Len(p) >= Len(pre) /\ SubSeq(p, 1, Len(pre)) = pre

\* the object o has something at path pre
HasKey(o, pre) == \E p \in DOMAIN o : StartsWith(p, pre)

NoOptions == [ p \in {} |-> "" ]

\* o.path = val
SetLeaf(o, path, val) ==
    [ p \in { q \in DOMAIN o : ~StartsWith(q, path) } \cup { path } |->
        IF p = path THEN val ELSE o[p] ]

\* delete o.path
DeleteLeaf(o, path) == [ p \in { q \in DOMAIN o : ~StartsWith(q, path) } |-> o[p] ]

\* const defaultOptions = { ... } of chart_utilities.js
defaultOptions(isAggregatedByMonth) ==
       (<< "responsive" >> :> "true")
    @@ (<< "maintainAspectRatio" >> :> "false")
    @@ (<< "plugins", "legend", "display" >> :> "true")
    @@ (<< "plugins", "legend", "position" >> :> "top")
    @@ (<< "plugins", "legend", "labels", "font", "family" >> :> "Inter")
    @@ (<< "plugins", "legend", "labels", "font", "size" >> :> "10")
    @@ (<< "plugins", "tooltip", "mode" >> :> "index")
    @@ (<< "plugins", "tooltip", "intersect" >> :> "false")
    @@ (<< "plugins", "tooltip", "callbacks", "label" >> :> "<function>")
    @@ (<< "scales", "x", "type" >> :> "time")
    @@ (<< "scales", "x", "time", "unit" >> :> IF isAggregatedByMonth THEN "month" ELSE "day")
    @@ (<< "scales", "x", "time", "tooltipFormat" >> :> "yyyy-MM-dd")
    @@ (<< "scales", "x", "time", "displayFormats", "day" >> :> "MMM dd")
    @@ (<< "scales", "x", "time", "displayFormats", "month" >> :> "MMM 'yy")
    @@ (<< "scales", "x", "time", "displayFormats", "year" >> :> "yyyy")
    @@ (<< "scales", "x", "ticks", "autoSkip" >> :> "true")
    @@ (<< "scales", "x", "ticks", "maxTicksLimit" >> :> "10")
    @@ (<< "scales", "x", "ticks", "font", "family" >> :> "Inter")
    @@ (<< "scales", "x", "ticks", "font", "size" >> :> "10")
    @@ (<< "scales", "x", "grid", "display" >> :> "false")
    @@ (<< "scales", "y", "beginAtZero" >> :> "true")
    @@ (<< "scales", "y", "ticks", "callback" >> :> "<function>")
    @@ (<< "scales", "y", "ticks", "font", "family" >> :> "Inter")
    @@ (<< "scales", "y", "ticks", "font", "size" >> :> "10")
    @@ (<< "scales", "y", "grid", "color" >> :> "rgba(0, 0, 0, 0.05)")

\* const defaultOptions = { ... } of the inline build, as the literal is written
defaultOptionsLiteral_inline(isAggregated) ==
       (<< "responsive" >> :> "true")
    @@ (<< "maintainAspectRatio" >> :> "false")
    @@ (<< "scales", "x", "display" >> :> "true")
    @@ (<< "scales", "x", "title", "display" >> :> "true")
    @@ (<< "scales", "x", "title", "text" >> :> "Date")
    @@ (<< "scales", "x", "type" >> :> "time")
    @@ (<< "scales", "x", "time", "unit" >> :> IF isAggregated THEN "month" ELSE "day")
    @@ (<< "scales", "x", "time", "displayFormats", "month" >> :> "MMM 'yy")
    @@ (<< "scales", "x", "time", "displayFormats", "day" >> :> "M/dd")
    @@ (<< "scales", "x", "time", "tooltipFormat" >> :> "M/d/yyyy")
    @@ (<< "scales", "x", "ticks", "source" >> :> "auto")
    @@ (<< "scales", "x", "ticks", "autoSkipPadding" >> :> "10")
    @@ (<< "scales", "x", "grid", "display" >> :> "false")
    @@ (<< "scales", "y", "beginAtZero" >> :> "true")
    @@ (<< "scales", "y", "title", "display" >> :> "true")
    @@ (<< "scales", "y", "title", "text" >> :> "Value")
    @@ (<< "scales", "y", "ticks", "count" >> :> "5")
    @@ (<< "scales", "y", "grid", "display" >> :> "false")
    @@ (<< "plugins", "legend", "display" >> :> "true")
    @@ (<< "plugins", "legend", "position" >> :> "right")
    @@ (<< "plugins", "tooltip", "mode" >> :> "index")
    @@ (<< "plugins", "tooltip", "intersect" >> :> "false")
    @@ (<< "elements", "point", "radius" >> :> "0")

XTicksLimit == << "scales", "x", "ticks", "maxTicksLimit" >>
YTicksCount == << "scales", "y", "ticks", "count" >>

\* if (isAggregated) ticks.maxTicksLimit = 12; else delete ticks.maxTicksLimit
fixTicksLimit_inline(o, isAggregated) ==
    IF isAggregated THEN SetLeaf(o, XTicksLimit, "12") ELSE DeleteLeaf(o, XTicksLimit)

\* defaultOptions of the inline build after the if / else that follows the
\* literal
defaultOptions_inline(isAggregated) ==
    fixTicksLimit_inline(defaultOptionsLiteral_inline(isAggregated), isAggregated)

\* Chart.helpers.merge(target, source): objects are merged key by key at
\* every depth, a leaf of source replaces the leaf of target
merge(target, source) ==
    [ p \in DOMAIN target \cup DOMAIN source |->
        IF p \in DOMAIN source THEN source[p] ELSE target[p] ]

\* { ...a[pre], ...b[pre] }: the object at path pre spread one level deep; a
\* key that b has is taken from b whole, any other key from a
spread(a, b, pre) ==
    LET D == { p \in DOMAIN b : StartsWith(p, pre) } \cup
             { p \in DOMAIN a : /\ StartsWith(p, pre)
                                /\ Len(p) > Len(pre)
                                /\ ~HasKey(b, SubSeq(p, 1, Len(pre) + 1)) }
    IN [ p \in D |-> IF p \in DOMAIN b THEN b[p] ELSE a[p] ]

\* o[pre] = sub
assign(o, pre, sub) ==
    [ p \in { q \in DOMAIN o : ~StartsWith(q, pre) } \cup DOMAIN sub |->
        IF p \in DOMAIN sub THEN sub[p] ELSE o[p] ]

\* the option set the inline setupChart builds: a spread at the top, at
\* scales, at scales.x and at scales.y, with maxTicksLimit and count fixed up
options_inline(additionalOptions, isAggregated) ==
    LET def == defaultOptions_inline(isAggregated)
        o0 == spread(def, additionalOptions, << >>)
        o1 == assign(o0, << "scales" >>, spread(def, additionalOptions, << "scales" >>))
        o2 == IF HasKey(additionalOptions, << "scales", "x" >>)
              THEN fixTicksLimit_inline(
                       assign(o1, << "scales", "x" >>,
                              spread(def, additionalOptions, << "scales", "x" >>)),
                       isAggregated)
              ELSE o1
        o3 == IF HasKey(additionalOptions, << "scales", "y" >>)
              THEN LET y == assign(o2, << "scales", "y" >>,
                                   spread(def, additionalOptions, << "scales", "y" >>))
                   IN IF ~HasKey(additionalOptions, YTicksCount)
                      THEN SetLeaf(y, YTicksCount, def[YTicksCount])
                      ELSE y
              ELSE o2
    IN IF HasKey(additionalOptions, << "scales" >>) THEN o3 ELSE o0

\* the option set handed to new Chart
OptionsOf(v, options, isAggregated) ==
    IF v = "modules" THEN merge(defaultOptions(isAggregated), options)
    ELSE options_inline(options, isAggregated)

\* Chart.getChart(canvasId): the live instances bound to the canvas
getChart(live, canvasId) == { c \in live : c.mount = canvasId }

\* mutation: the chart on the canvas is left alive
destroyExisting_leak(live, canvasId) == live

\* if (Chart.getChart(canvasId)) Chart.getChart(canvasId).destroy()
destroyExisting(live, canvasId) ==
    IF getChart(live, canvasId) # {}
    THEN live \ { CHOOSE c \in getChart(live, canvasId) : TRUE }
    ELSE live

\* mutation: the canvas is not looked for
setupChart_noGuard(v, mounts, live, id, canvasId, options, isAggregated) ==
    [ live |-> destroyExisting(live, canvasId) \cup { [ id |-> id, mount |-> canvasId ] },
      returned |-> "chart",
      options |-> OptionsOf(v, options, isAggregated),
      logged |-> FALSE ]

\* setupChart(canvasId, type, datasets, options, isAggregatedByMonth) on a
\* page whose DOM holds the canvases in mounts, id naming the instance that
\* new Chart would make
setupChart(v, mounts, live, id, canvasId, options, isAggregated) ==
    IF canvasId \notin mounts
    THEN [ live |-> live, returned |-> "null", options |-> NoOptions,
           logged |-> v = "modules" ]
    ELSE [ live |-> destroyExisting(live, canvasId) \cup { [ id |-> id, mount |-> canvasId ] },
           returned |-> "chart",
           options |-> OptionsOf(v, options, isAggregated),
           logged |-> FALSE ]

(***************************************************************************)
(* Table renderer                                                          *)
(*                                                                         *)
(* A table row is [route, current_index, previous_index, weekly_change];   *)
(* its texts are strings, Null or Undefined; weekly_change is [present,    *)
(* value, percentage, color_class], present FALSE for a row without the    *)
(* property.  A cell's content is the sequence of the pieces of its text.  *)
(* The container is [kind, headers, cells], kind "initial" for markup the  *)
(* renderer has not touched.                                               *)
(***************************************************************************)

\* what a template literal or textContent shows for a value
TextOf(x) == IF x = Null THEN "null" ELSE IF x = Undefined THEN "undefined" ELSE x

\* parseFloat(x).toFixed(2) on the values tried
toFixed2(x) == IF x = "12.5" THEN "12.50" ELSE IF x = "-3" THEN "-3.00" ELSE "NaN"

\* header.includes(marker): the headers tried contain a marker only by being it
includes(header, marker) == header = marker

\* x ?? '-'
orDash(x) == IF x = Null \/ x = Undefined THEN "-" ELSE x

\* x || '--'
orDashes(x) == IF x = Null \/ x = Undefined \/ x = "" THEN "--" ELSE x

\* the cell the inline build writes for one header of one row
cell_inline(header, rowData) ==
    LET weeklyChange == rowData.weekly_change
        value == IF weeklyChange.present THEN weeklyChange.value ELSE Undefined
        percentage == IF weeklyChange.present THEN weeklyChange.percentage ELSE Undefined
    IN
    IF includes(header, "Weekly Change") THEN
        IF value # Undefined /\ percentage # Undefined
        THEN << TextOf(value), " (", TextOf(percentage), ")" >>
        ELSE << "-" >>
    ELSE IF includes(header, "Current Index") THEN << orDash(rowData.current_index) >>
    ELSE IF includes(header, "Previous Index") THEN << orDash(rowData.previous_index) >>
    ELSE IF includes(header, "ko[Route]") \/ includes(header, "route")
         THEN stripSectionPrefix(rowData.route)
    ELSE << "-" >>   \* rowData[key] ?? '-': no header tried names a property of the row

\* the four cells the modules build writes for a row with weekly_change
rowCells(row) ==
    LET changeValue == IF row.weekly_change.value # Null
                       THEN << toFixed2(row.weekly_change.value) >> ELSE << "--" >>
        percentage == IF row.weekly_change.percentage # Null
                      THEN << " (", TextOf(row.weekly_change.percentage), ")" >> ELSE << >>
    IN << stripSectionPrefix(row.route), << orDashes(row.current_index) >>,
          << orDashes(row.previous_index) >>, changeValue \o percentage >>

Placeholder == [ kind |-> "placeholder", headers |-> << >>, cells |-> << >> ]

\* renderTable(containerId, headers, rows) of the inline build, on a container
\* that is present or not and holds the content before
renderTable_inline(present, before, headers, rows) ==
    IF ~present THEN [ container |-> before, threw |-> FALSE ]
    ELSE IF Len(headers) = 0 \/ Len(rows) = 0
    THEN [ container |-> Placeholder, threw |-> FALSE ]
    ELSE [ container |-> [ kind |-> "table", headers |-> headers,
                           cells |-> [ i \in 1..Len(rows) |->
                                       [ j \in 1..Len(headers) |-> cell_inline(headers[j], rows[i]) ] ] ],
           threw |-> FALSE ]

\* renderTable(containerId, headers, rows) of table_renderer.js; reading
\* row.weekly_change.value of a row without weekly_change throws before
\* container.innerHTML is assigned
renderTable(present, before, headers, rows) ==
    IF ~present THEN [ container |-> before, threw |-> FALSE ]
    ELSE IF Len(rows) = 0 THEN [ container |-> Placeholder, threw |-> FALSE ]
    ELSE IF \E i \in 1..Len(rows) : ~rows[i].weekly_change.present
    THEN [ container |-> before, threw |-> TRUE ]
    ELSE [ container |-> [ kind |-> "table", headers |-> headers,
                           cells |-> [ i \in 1..Len(rows) |-> rowCells(rows[i]) ] ],
           threw |-> FALSE ]

(***************************************************************************)
(* Orchestrator                                                            *)
(*                                                                         *)
(* What the page shows is a function from slots to "initial", "rendered",  *)
(* "nodata" or "error".  A slot is << "chart", family >>,                  *)
(* << "table", family >> or << "panel", name >>.  The loader waits twice,  *)
(* for fetch(...) and for response.json(); the code after the second wait  *)
(* is one callback: it runs to its end, to its catch block, or out of the  *)
(* catch block with an error nobody handles.                               *)
(***************************************************************************)

\* the order in which the families are rendered
SectionOrder == << "KCCI", "SCFI", "WCI", "IACI", "BLANK_SAILING", "FBX", "XSI", "MBCI" >>

ChartSlots == { << "chart", f >> : f \in IndexTypes }
TableSlots == { << "table", f >> : f \in IndexTypes }
PanelSlots == { << "panel", "weather" >>, << "panel", "exchange" >> }
Slots == ChartSlots \cup TableSlots \cup PanelSlots

\* the slots whose markup lies inside a container the code writes to
SlotsIn(target) ==
    IF target = ".chart-slider-container" THEN ChartSlots
    ELSE IF target \in { ".table-slider-container", ".table-container" } THEN TableSlots
    ELSE IF target = "weather-info" THEN { << "panel", "weather" >> }
    ELSE { << "panel", "exchange" >> }

\* the containers the catch block writes an error text into, in its order
CatchTargets(v) ==
    IF v = "modules" THEN << ".chart-slider-container", ".table-container" >>
    ELSE << ".chart-slider-container", ".table-slider-container", "weather-info",
            "exchange-rate-info" >>

\* shown with every slot of S set to what
Show(shown, S, what) == [ s \in Slots |-> IF s \in S THEN what ELSE shown[s] ]

RECURSIVE catchBlock(_, _, _, _)
\* the catch block from its i-th write on, on a document holding the
\* containers in dom: querySelector(...).innerHTML = ... throws a TypeError
\* for a container that is missing, querySelectorAll(...).forEach does not
catchBlock(v, i, dom, shown) ==
    IF i > Len(CatchTargets(v)) THEN [ shown |-> shown, uncaught |-> FALSE ]
    ELSE LET target == CatchTargets(v)[i] IN
         IF target # ".table-container" /\ target \notin dom
         THEN [ shown |-> shown, uncaught |-> TRUE ]
         ELSE catchBlock(v, i + 1, dom, Show(shown, SlotsIn(target), "error"))

RECURSIVE renderSections(_, _, _, _)
\* the per-family blocks from the i-th on: the chart is set up, then
\* renderTable is called with tableDataBySection.<family>.headers, which
\* throws a TypeError when table_data has no such family
renderSections(i, tableSections, chartsInDocument, shown) ==
    IF i > Len(SectionOrder) THEN [ shown |-> shown, threw |-> FALSE ]
    ELSE LET f == SectionOrder[i]
             withChart == IF chartsInDocument
                          THEN Show(shown, { << "chart", f >> }, "rendered") ELSE shown
         IN IF f \notin tableSections
            THEN [ shown |-> withChart, threw |-> TRUE ]
            ELSE renderSections(i + 1, tableSections, chartsInDocument,
                                Show(withChart, { << "table", f >> }, "rendered"))

\* mutation: after a failure the page calls the loader again
phaseAfterCatch_retry(phase) == "Idle"

\* the catch block ends the loader: it calls nothing and schedules nothing,
\* so the page stays in the phase of the failure
phaseAfterCatch(phase) == phase

\* what follows the awaits of loadAndDisplayData (inline) and
\* initializeCrawlingDataChartsAndTables (modules): outcome is "ok", "http"
\* (a non-2xx status), "network" (fetch rejected) or "invalid" (response.json()
\* rejected); chartDataEmpty says chart_data has no key
settle(v, outcome, chartDataEmpty, tableSections, dom, shown) ==
    LET failed(phase, sh) ==
            LET c == catchBlock(v, 1, dom, sh) IN
            [ phase |-> phaseAfterCatch(phase), shown |-> c.shown, uncaught |-> c.uncaught ]
        panels == IF v = "inline" THEN Show(shown, PanelSlots, "rendered") ELSE shown
        sections(chartsInDocument, sh) ==
            LET r == renderSections(1, tableSections, chartsInDocument, sh) IN
            IF r.threw THEN failed("RenderFailed", r.shown)
            ELSE [ phase |-> "Rendered", shown |-> r.shown, uncaught |-> FALSE ]
    IN
    IF outcome # "ok" THEN failed("FetchFailed", shown)
    ELSE IF chartDataEmpty THEN
        IF ".chart-slider-container" \notin dom THEN failed("RenderFailed", shown)
        ELSE IF v = "inline"
        THEN [ phase |-> "NoChartData", shown |-> Show(shown, ChartSlots, "nodata"),
               uncaught |-> FALSE ]
        ELSE sections(FALSE, Show(shown, ChartSlots, "nodata"))
    ELSE sections(TRUE, panels)

(***************************************************************************)
(* The blank sailing block of the render pass                              *)
(***************************************************************************)

\* the elements of the blankSailingDatasets array literal, in its order: the
\* label and the field of the aggregated records each one reads
blankSailingSeries(v) ==
    << [ label |-> << "Gemini Cooperation" >>, key |-> "BLANK_SAILING_Gemini_Cooperation" ],
       [ label |-> << "MSC" >>, key |-> "BLANK_SAILING_MSC" ],
       [ label |-> << "OCEAN Alliance" >>, key |-> "BLANK_SAILING_OCEAN_Alliance" ],
       [ label |-> << "Premier Alliance" >>, key |-> "BLANK_SAILING_Premier_Alliance" ],
       [ label |-> << "Others/Independent" >>, key |-> "BLANK_SAILING_Others_Independent" ],
       [ label |-> << "Total" >>,
         key |-> IF v = "modules" THEN "BLANK_SAILING_ko[Composite Index]"
                 ELSE "BLANK_SAILING_Total" ] >>

RECURSIVE drawSeries(_, _, _, _, _)
\* the array literal from its i-th element on: every element calls
\* getNextColor() and getNextBorderColor() when it is evaluated
drawSeries(v, aggregatedData, i, ci, acc) ==
    IF i > Len(blankSailingSeries(v)) THEN [ datasets |-> acc, colorIndex |-> ci ]
    ELSE LET next == NextColorOf(v, ci)
             element == blankSailingSeries(v)[i]
         IN drawSeries(v, aggregatedData, i + 1, next.colorIndex,
                       Append(acc, [ label |-> element.label,
                                     data |-> mapPoints(aggregatedData, element.key),
                                     backgroundColor |-> next.color,
                                     borderColor |-> NextBorderOf(v, next.colorIndex),
                                     borderWidth |-> 1,
                                     fill |-> FALSE ]))

\* dataset.data.some(point => point.y !== null && point.y !== undefined)
somePoint(dataset) ==
    \E i \in 1..Len(dataset.data) :
        dataset.data[i].y # NullV /\ dataset.data[i].y # UndefinedV

\* blankSailingDatasets: the six elements are built first, each with its
\* colour, and the ones without a point are filtered out afterwards
blankSailingDatasets(v, aggregatedData, ci) ==
    LET all == drawSeries(v, aggregatedData, 1, ci, << >>) IN
    [ datasets |-> SelectSeq(all.datasets, somePoint), colorIndex |-> all.colorIndex ]

(***************************************************************************)
(* Slide rotation                                                          *)
(***************************************************************************)

\* NaN, what a % 0 gives
NaNV == << "NaN" >>

\* setupSlider(slidesSelector, intervalTime) of the inline build on a document
\* with count matching elements: the slide shown and whether an interval is
\* armed
setupSlider(count) ==
    [ currentSlide |-> 0,
      active |-> IF count > 0 THEN { 0 } ELSE {},
      armed |-> count > 1 ]

\* currentIndex = (currentIndex + 1) % totalItems, the first statement of
\* nextSlide in all three pages
nextSlide(currentIndex, totalItems) ==
    IF currentIndex = NaNV \/ totalItems = 0 THEN NaNV
    ELSE Num(JsRem(currentIndex[2] + 1, totalItems))

\* the slides that updateCarousel / showSlide leave marked active: those
\* whose position is === currentIndex
showSlide(currentIndex, totalItems) ==
    { idx \in 0..(totalItems - 1) : Num(idx) = currentIndex }

\* mutation: the running interval is not cleared before the new one is armed
resetInterval_noClear(armed, interval, made) ==
    [ armed |-> armed \cup { made + 1 }, interval |-> made + 1, made |-> made + 1 ]

\* resetInterval of setupCarousel: clearInterval(interval), then interval =
\* setInterval(nextSlide, intervalTime).  Timer ids are 1, 2, ... in the order
\* of the setInterval calls; 0 stands for a variable that is still undefined,
\* and clearing it clears nothing
resetInterval(armed, interval, made) ==
    [ armed |-> (armed \ { interval }) \cup { made + 1 }, interval |-> made + 1,
      made |-> made + 1 ]

\* setupCarousel(carouselInnerId, dotsContainerId, intervalTime) on a
\* carousel of totalItems children, after made calls of setInterval: the
\* closure it leaves behind and the interval id it returns
setupCarousel(totalItems, made) ==
    LET r == resetInterval({}, 0, made) IN
    [ currentIndex |-> Num(0),
      dots |-> totalItems,
      armed |-> r.armed,
      interval |-> r.interval,
      returned |-> r.interval,
      made |-> r.made ]

(***************************************************************************)
(* Bounds                                                                  *)
(***************************************************************************)

\* calls of the loader followed on one page
MaxFetches == 2

\* runs of the clock callback followed on one page
MaxClockTicks == 2

\* slides of one carousel or slider
MaxSlides == 3

\* rotation ticks followed since the carousel was set up or a dot was clicked
MaxTicks == 4

\* dot clicks followed on one page
MaxDotClicks == 2

\* the palette counter is followed up to this value (two full cycles of 12)
MaxColorIndex == 25

\* table rows handed to one dataset build
MaxRows == 2

\* time-series records handed to one dataset build
MaxRecords == 2

\* time-series records handed to one aggregation
MaxAggRecords == 2

\* largest monthsToDisplay tried
MaxMonths == 3

\* chart instances created on one page
MaxCharts == 3

\* rows of a rendered table
MaxTableRows == 2

\* families that table_data may lack at once (or it lacks all of them)
MaxMissing == 1

(***************************************************************************)
(* State                                                                   *)
(***************************************************************************)

VARIABLES
    variant,       \* which page build runs
    pc,            \* where the operation under study stands
    colorIndex,    \* the palette counter (let colorIndex)
    nextCalls,     \* history: calls of getNextColor since start-up or the last reset
    lastOp,        \* history: the palette operation that ran last
    lastColor,     \* history: what the last getNextColor returned
    lastBorder,    \* history: what the last getNextBorderColor returned
    prevIndex,     \* history: the counter before the last operation
    resetAfterUse, \* history: a reset has followed at least one getNextColor
    indexType,     \* the index family of the call
    excluded,      \* the labels of the family mapped to null
    route,         \* a table route being resolved
    intendedLabel, \* history: the label the route was written for
    routeLabel,    \* originalRouteName, the route without its section prefix
    dataKey,       \* mapping[originalRouteName]
    chartData,     \* the time series handed to the dataset builder
    tableRows,     \* the table rows handed to the dataset builder
    datasets,      \* the datasets the builder returned
    emittedRows,   \* history: the table row behind each dataset
    log,           \* the console lines the builder wrote
    rawData,       \* the array handed to the aggregator
    givenData,     \* history: rawData as it was handed over
    monthsToDisplay, \* the aggregator's second argument
    tzWest,        \* the browser's time zone is west of UTC
    today,         \* the calendar date of the browser's clock
    aggregated,    \* what the aggregator returned
    domMounts,     \* the chart canvases the document holds
    liveCharts,    \* the chart instances that are not destroyed
    chartsMade,    \* how many chart instances were created so far
    callMount,     \* the canvasId of the last setupChart call
    callOptions,   \* the options argument of the page's setupChart calls
    callAggregated, \* the isAggregatedByMonth argument of the page's setupChart calls
    callReturned,  \* what the last setupChart call returned: "chart" or "null"
    chartOptions,  \* the options the last new Chart received
    liveBefore,    \* history: liveCharts before the last setupChart call
    tableHeaders,  \* the headers handed to renderTable
    containerPresent, \* the document holds the table container
    container,     \* what the table container shows
    tableThrew,    \* renderTable ended with an exception
    fetchOutcome,  \* how the fetch of the JSON artifact settled
    chartDataEmpty, \* chart_data of the artifact has no key
    tableSections, \* the families table_data of the artifact has a key for
    domContainers, \* the containers of the catch block that the document holds
    shown,         \* what every slot of the page shows
    uncaught,      \* an error left the handler without being caught
    fetchesIssued, \* history: how many times fetch(...) was called
    clockTimer,    \* the 1-second clock interval is armed
    clockTicks,    \* history: how many times the clock callback ran
    tickedIn,      \* history: the phases of the loader in which a clock callback ran
    slideCounts,   \* how many elements of the document match each slider selector
    sliderTimers,  \* the slider selectors whose rotation interval is armed
    totalItems,    \* per carousel: how many slides it holds
    currentIndex,  \* per carousel: currentIndex (currentSlide) of its closure
    interval,      \* per carousel: the variable interval of its closure
    carouselHandle, \* per carousel: the global holding what setupCarousel returned
    armedTimers,   \* per carousel: the ids of its intervals that are armed
    timersMade,    \* how many times setInterval was called
    ticksSinceMove, \* history, per carousel: ticks since set-up or the last dot click
    moveIndex,     \* history, per carousel: the index set at set-up or by the last dot click
    dotClicks      \* history: how many dots were clicked

paletteVars  == << colorIndex, nextCalls, lastOp, lastColor, lastBorder, prevIndex, resetAfterUse >>
resolveVars  == << route, intendedLabel, routeLabel, dataKey >>
builderVars  == << chartData, tableRows, datasets, emittedRows, log >>
aggVars      == << rawData, givenData, monthsToDisplay, tzWest, today, aggregated >>

renderVars   == << domMounts, liveCharts, chartsMade, callMount, callOptions, callAggregated,
                   callReturned, chartOptions, liveBefore >>

\* the state of the page outside the four pure stages
tableVars    == << tableHeaders, containerPresent, container, tableThrew >>

orchVars     == << fetchOutcome, chartDataEmpty, tableSections, domContainers, shown, uncaught >>

timerVars    == << fetchesIssued, clockTimer, clockTicks, tickedIn, slideCounts, sliderTimers >>

slideVars    == << totalItems, currentIndex, interval, carouselHandle, armedTimers, timersMade,
                   ticksSinceMove, moveIndex, dotClicks >>

pageVars == << renderVars, tableVars, orchVars, timerVars, slideVars >>

vars == << variant, pc, indexType, excluded, paletteVars, resolveVars, builderVars, aggVars,
           pageVars >>

RenderFresh ==
    /\ domMounts = {}
    /\ liveCharts = {}
    /\ chartsMade = 0
    /\ callMount = ""
    /\ callOptions = NoOptions
    /\ callAggregated = FALSE
    /\ callReturned = "none"
    /\ chartOptions = NoOptions
    /\ liveBefore = {}

InitialMarkup == [ kind |-> "initial", headers |-> << >>, cells |-> << >> ]

TableFresh ==
    /\ tableHeaders = << >>
    /\ containerPresent = TRUE
    /\ container = InitialMarkup
    /\ tableThrew = FALSE

OrchFresh ==
    /\ fetchOutcome = "pending"
    /\ chartDataEmpty = FALSE
    /\ tableSections = IndexTypes
    /\ domContainers = {}
    /\ shown = [ s \in Slots |-> "initial" ]
    /\ uncaught = FALSE

\* the selectors setupSlider is called with
SliderSelectors == { ".chart-slide", ".top-info-slide" }

TimerFresh ==
    /\ fetchesIssued = 0
    /\ clockTimer = FALSE
    /\ clockTicks = 0
    /\ tickedIn = {}
    /\ slideCounts = [ sel \in SliderSelectors |-> 0 ]
    /\ sliderTimers = {}

SlideFresh ==
    /\ totalItems = << >>
    /\ currentIndex = << >>
    /\ interval = << >>
    /\ carouselHandle = << >>
    /\ armedTimers = << >>
    /\ timersMade = 0
    /\ ticksSinceMove = << >>
    /\ moveIndex = << >>
    /\ dotClicks = 0

PageFresh == RenderFresh /\ TableFresh /\ OrchFresh /\ TimerFresh /\ SlideFresh

\* the state of each part before it is used
PaletteFresh ==
    /\ colorIndex = 0
    /\ nextCalls = 0
    /\ lastOp = "none"
    /\ lastColor = Undefined
    /\ lastBorder = Undefined
    /\ prevIndex = 0
    /\ resetAfterUse = FALSE

ResolveFresh ==
    /\ route = << >>
    /\ intendedLabel = << >>
    /\ routeLabel = << >>
    /\ dataKey = Undefined

BuilderFresh ==
    /\ chartData = << >>
    /\ tableRows = << >>
    /\ datasets = << >>
    /\ emittedRows = << >>
    /\ log = << >>

AggFresh ==
    /\ rawData = << >>
    /\ givenData = << >>
    /\ monthsToDisplay = 12
    /\ tzWest = FALSE
    /\ today = << 2024, 4, 15 >>
    /\ aggregated = [ aggregatedData |-> << >>, monthlyLabels |-> << >> ]

(***************************************************************************)
(* Palette specification: any sequence of next / nextBorder / reset        *)
(***************************************************************************)

InitPalette ==
    /\ PageFresh
    /\ variant \in Variants
    /\ pc = "palette"
    /\ indexType = "KCCI"
    /\ excluded = {}
    /\ PaletteFresh
    /\ ResolveFresh
    /\ BuilderFresh
    /\ AggFresh

GetNextColor ==
    /\ pc = "palette"
    /\ colorIndex < MaxColorIndex
    /\ LET r == NextColorOf(variant, colorIndex) IN
        /\ lastColor' = r.color
        /\ colorIndex' = r.colorIndex
    /\ nextCalls' = nextCalls + 1
    /\ lastOp' = "next"
    /\ prevIndex' = colorIndex
    /\ UNCHANGED << pageVars, variant, pc, indexType, excluded, lastBorder, resetAfterUse,
                    resolveVars, builderVars, aggVars >>

GetNextBorderColor ==
    /\ pc = "palette"
    /\ lastBorder' = NextBorderOf(variant, colorIndex)
    /\ lastOp' = "nextBorder"
    /\ prevIndex' = colorIndex
    /\ UNCHANGED << pageVars, variant, pc, indexType, excluded, colorIndex, nextCalls, lastColor,
                    resetAfterUse, resolveVars, builderVars, aggVars >>

ResetColorIndex ==
    /\ pc = "palette"
    /\ colorIndex' = resetColorIndex
    /\ nextCalls' = 0
    /\ lastOp' = "reset"
    /\ prevIndex' = colorIndex
    /\ resetAfterUse' = (resetAfterUse \/ nextCalls > 0)
    /\ UNCHANGED << pageVars, variant, pc, indexType, excluded, lastColor, lastBorder,
                    resolveVars, builderVars, aggVars >>

NextPalette == GetNextColor \/ GetNextBorderColor \/ ResetColorIndex

SpecPalette == InitPalette /\ [][NextPalette]_vars

(***************************************************************************)
(* Route resolution specification: one table route of one family is        *)
(* stripped of its prefix and looked up                                    *)
(***************************************************************************)

\* labels that no family declares
UndeclaredLabels == { << "Unknown" >>, << >>, << "constructor" >>, << "toString" >> }

\* the route the table carries for label L of family F: F + "_" + L
RouteFor(type, L) == SectionPrefix[type] \o << "_" >> \o L

InitResolve ==
    /\ PageFresh
    /\ variant \in Variants
    /\ pc = "route"
    /\ indexType \in IndexTypes
    /\ excluded = {}
    /\ \/ /\ intendedLabel \in DOMAIN MapOf(variant)[indexType] \cup UndeclaredLabels
          /\ route = RouteFor(indexType, intendedLabel)
       \/ /\ intendedLabel = << >>
          /\ route = SectionPrefix[indexType]
    /\ routeLabel = << >>
    /\ dataKey = Undefined
    /\ PaletteFresh
    /\ BuilderFresh
    /\ AggFresh

\* lines 120 and 123 of the builder: strip the prefix, look the label up
Resolve ==
    /\ pc = "route"
    /\ routeLabel' = stripSectionPrefix(route)
    /\ dataKey' = resolve(MapOf(variant)[indexType], stripSectionPrefix(route))
    /\ pc' = "resolved"
    /\ UNCHANGED << pageVars, variant, indexType, excluded, route, intendedLabel,
                    paletteVars, builderVars, aggVars >>

NextResolve == Resolve

SpecResolve == InitResolve /\ [][NextResolve]_vars

(***************************************************************************)
(* Dataset builder specification: one call of createDatasetsFromTableRows  *)
(* on table rows and a time series drawn from small sets                   *)
(***************************************************************************)

\* the labels whose rows and series are tried
\* the families the builder is run for: between them they hold every thick-line
\* marker, a thin line and the two-word prefix
BuilderTypes == { "KCCI", "BLANK_SAILING", "FBX", "XSI", "MBCI" }

BuilderLabels ==
    { << "ko[Composite Index]" >>, << "Total" >>,
      << "ko[Global Container Freight Index]" >>, << "ko[East Asia] -> ko[North Europe]" >>,
      << "MBCI" >> }

LabelsTried(v, type) == DOMAIN MapOf(v)[type] \cap BuilderLabels

\* what a table row can hold as current_index: "no data" or a number
CurrentIndexValues == { Str(""), Num(1100) }

RowsTried(v, type) ==
    { [ route |-> r, current_index |-> c ] :
        r \in { RouteFor(type, L) :
                   L \in LabelsTried(v, type) \cup { << "Unknown" >>, << "constructor" >> } },
        c \in CurrentIndexValues }

\* the shapes of a time-series record: each field of a tried label holds a
\* number, holds null or is absent
ShapesTried(v, type) ==
    LET keys == { MapOf(v)[type][L] : L \in LabelsTried(v, type) } IN
    { [ vals |-> [ k \in numeric |-> 1000 ], nulls |-> nul ] :
        numeric \in SUBSET keys, nul \in SUBSET keys }

\* time series of n records in ascending date order
SeriesTried(v, type, n) ==
    { [ i \in 1..n |-> [ date |-> << 2024, i, 1 >>, vals |-> sh[i].vals, nulls |-> sh[i].nulls ] ] :
        sh \in [ 1..n -> { x \in ShapesTried(v, type) : DOMAIN x.vals \cap x.nulls = {} } ] }

InitBuilder ==
    /\ PageFresh
    /\ variant \in Variants
    /\ pc = "rows"
    /\ indexType \in BuilderTypes
    /\ excluded \in { {} } \cup { { L } : L \in LabelsTried(variant, indexType) }
    /\ \E n \in 0..MaxRows : tableRows \in [ 1..n -> RowsTried(variant, indexType) ]
    /\ \E n \in 0..MaxRecords : chartData \in SeriesTried(variant, indexType, n)
    /\ datasets = << >>
    /\ emittedRows = << >>
    /\ log = << >>
    /\ PaletteFresh
    /\ ResolveFresh
    /\ AggFresh

CreateDatasetsFromTableRows ==
    /\ pc = "rows"
    /\ LET r == createDatasetsFromTableRows(variant, indexType, excluded, chartData,
                                            tableRows, colorIndex) IN
        /\ datasets' = r.datasets
        /\ emittedRows' = r.emittedRows
        /\ log' = r.log
        /\ colorIndex' = r.colorIndex
        /\ nextCalls' = nextCalls + Len(r.datasets)
        /\ lastOp' = IF Len(r.datasets) > 0 THEN "nextBorder" ELSE lastOp
        /\ lastColor' = IF Len(r.datasets) > 0
                        THEN r.datasets[Len(r.datasets)].backgroundColor ELSE lastColor
        /\ lastBorder' = IF Len(r.datasets) > 0
                         THEN r.datasets[Len(r.datasets)].borderColor ELSE lastBorder
    /\ prevIndex' = colorIndex
    /\ pc' = "built"
    /\ UNCHANGED << pageVars, variant, indexType, excluded, resetAfterUse, chartData, tableRows,
                    resolveVars, aggVars >>

NextBuilder == CreateDatasetsFromTableRows

SpecBuilder == InitBuilder /\ [][NextBuilder]_vars

(***************************************************************************)
(* The builder on a family with two charted routes: KCCI rows for the      *)
(* composite index and for one trade lane, so that two different datasets  *)
(* can come out of one call                                                *)
(***************************************************************************)

PairLabels == { << "ko[Composite Index]" >>, << "ko[US West Coast]" >> }

PairRows ==
    { [ route |-> RouteFor("KCCI", L), current_index |-> c ] :
        L \in PairLabels \cup { << "Unknown" >> }, c \in CurrentIndexValues }

\* time series of n records in ascending date order, each field of the two
\* routes holding a number or null
PairSeries(v, n) ==
    LET keys == { MapOf(v)["KCCI"][L] : L \in PairLabels } IN
    { [ i \in 1..n |-> [ date |-> << 2024, i, 1 >>,
                         vals |-> [ k \in numeric[i] |-> 1000 + i ],
                         nulls |-> keys \ numeric[i] ] ] :
        numeric \in [ 1..n -> SUBSET keys ] }

InitBuilderPair ==
    /\ PageFresh
    /\ variant \in Variants
    /\ pc = "rows"
    /\ indexType = "KCCI"
    /\ excluded = {}
    /\ \E n \in 0..MaxRows : tableRows \in [ 1..n -> PairRows ]
    /\ \E n \in 0..MaxRecords : chartData \in PairSeries(variant, n)
    /\ datasets = << >>
    /\ emittedRows = << >>
    /\ log = << >>
    /\ PaletteFresh
    /\ ResolveFresh
    /\ AggFresh

SpecBuilderPair == InitBuilderPair /\ [][NextBuilder]_vars

(***************************************************************************)
(* Aggregator specification: one call of aggregateDataByMonth on records   *)
(* drawn from small sets                                                   *)
(***************************************************************************)

\* the builds with an aggregator: chart.js ("carousel") has its own
AggVariants == { "modules", "inline", "carousel" }

\* the dates tried: a mid-month day, a first of the month and a 31st
AggDates == { << 2024, 1, 15 >>, << 2024, 3, 1 >>, << 2024, 3, 31 >> }

\* the two fields tried
AggKeys == { "BLANK_SAILING_MSC", "BLANK_SAILING_Total" }

\* the records tried: MSC holds 2, 4 or null or is absent, Total holds 3 or
\* is absent
AggRecords ==
    { [ date |-> d, vals |-> v, nulls |-> n ] :
        d \in AggDates,
        v \in { << >> } \cup { [ k \in { "BLANK_SAILING_MSC" } |-> x ] : x \in { 2, 4 } }
              \cup { [ k \in { "BLANK_SAILING_Total" } |-> 3 ] }
              \cup { [ k \in AggKeys |-> IF k = "BLANK_SAILING_Total" THEN 3 ELSE x ] : x \in { 2, 4 } },
        n \in { {}, { "BLANK_SAILING_MSC" } } }

InitAggregate ==
    /\ PageFresh
    /\ variant \in AggVariants
    /\ pc = "data"
    /\ indexType = "BLANK_SAILING"
    /\ excluded = {}
    /\ \E n \in 0..MaxAggRecords :
          rawData \in [ 1..n -> { r \in AggRecords : DOMAIN r.vals \cap r.nulls = {} } ]
    /\ givenData = rawData
    /\ IF variant = "carousel"
       THEN /\ monthsToDisplay = CarouselMonths
            /\ tzWest = FALSE
            /\ today \in { << 2024, 4, 15 >>, << 2024, 12, 31 >> }
       ELSE /\ monthsToDisplay \in 1..MaxMonths
            /\ tzWest \in BOOLEAN
            /\ today = << 2024, 4, 15 >>
    /\ aggregated = [ aggregatedData |-> << >>, monthlyLabels |-> << >> ]
    /\ PaletteFresh
    /\ ResolveFresh
    /\ BuilderFresh

\* aggregateDataByMonth of data_aggregation.js; sorts the array it is given
AggregateDataByMonth ==
    /\ pc = "data"
    /\ variant = "modules"
    /\ aggregated' = aggregateDataByMonth(rawData, monthsToDisplay, tzWest)
    /\ rawData' = sortByDate(rawData)
    /\ pc' = "aggregated"
    /\ UNCHANGED << pageVars, variant, indexType, excluded, givenData, monthsToDisplay, tzWest, today,
                    paletteVars, resolveVars, builderVars >>

\* aggregateDataByMonth of the inline build; sorts the array it is given
AggregateDataByMonth_inline ==
    /\ pc = "data"
    /\ variant = "inline"
    /\ aggregated' = aggregateDataByMonth_inline(rawData, monthsToDisplay, tzWest)
    /\ rawData' = sortByDate(rawData)
    /\ pc' = "aggregated"
    /\ UNCHANGED << pageVars, variant, indexType, excluded, givenData, monthsToDisplay, tzWest, today,
                    paletteVars, resolveVars, builderVars >>

\* aggregateDataByMonth of chart.js
AggregateDataByMonth_carousel ==
    /\ pc = "data"
    /\ variant = "carousel"
    /\ aggregated' = aggregateDataByMonth_carousel(rawData, AggKeys, today)
    /\ pc' = "aggregated"
    /\ UNCHANGED << pageVars, variant, indexType, excluded, rawData, givenData, monthsToDisplay, tzWest,
                    today, paletteVars, resolveVars, builderVars >>

NextAggregate ==
    AggregateDataByMonth \/ AggregateDataByMonth_inline \/ AggregateDataByMonth_carousel

SpecAggregate == InitAggregate /\ [][NextAggregate]_vars

(***************************************************************************)
(* Chart renderer specification: any sequence of setupChart calls on a     *)
(* page, among them calls for canvases the document does not hold, with    *)
(* the chart slider's canvases replaced by a placeholder at any time       *)
(***************************************************************************)

MountIds == { "KCCIChart", "exchangeRateChartCanvas" }

\* the canvases inside .chart-slider-container
SliderMounts == { "KCCIChart" }

OverridePaths ==
    { XTicksLimit, YTicksCount, << "scales", "y", "ticks", "stepSize" >>,
      << "plugins", "legend", "display" >> }

\* the options arguments tried: every choice of leaves, each set by the caller;
\* a page passes the same options and isAggregatedByMonth on every call
OverridesTried == { [ p \in S |-> "override" ] : S \in SUBSET OverridePaths }

InitRender ==
    /\ variant \in Variants
    /\ pc = "page"
    /\ indexType = "KCCI"
    /\ excluded = {}
    /\ domMounts \in SUBSET MountIds
    /\ liveCharts = {}
    /\ chartsMade = 0
    /\ callMount = ""
    /\ callOptions \in OverridesTried
    /\ callAggregated \in BOOLEAN
    /\ callReturned = "none"
    /\ chartOptions = NoOptions
    /\ liveBefore = {}
    /\ TableFresh
    /\ OrchFresh
    /\ TimerFresh
    /\ SlideFresh
    /\ PaletteFresh
    /\ ResolveFresh
    /\ BuilderFresh
    /\ AggFresh

SetupChart ==
    /\ pc = "page"
    /\ chartsMade < MaxCharts
    /\ \E canvasId \in MountIds :
          LET r == setupChart(variant, domMounts, liveCharts, chartsMade + 1, canvasId,
                              callOptions, callAggregated) IN
          /\ liveCharts' = r.live
          /\ chartsMade' = IF r.returned = "chart" THEN chartsMade + 1 ELSE chartsMade
          /\ callMount' = canvasId
          /\ callReturned' = r.returned
          /\ chartOptions' = r.options
    /\ liveBefore' = liveCharts
    /\ UNCHANGED << variant, pc, indexType, excluded, domMounts, callOptions, callAggregated,
                    tableVars, orchVars, timerVars, slideVars, paletteVars, resolveVars, builderVars, aggVars >>

\* .chart-slider-container gets a placeholder as its innerHTML: the canvases
\* in it leave the document
ReplaceSlider ==
    /\ pc = "page"
    /\ domMounts \cap SliderMounts # {}
    /\ domMounts' = domMounts \ SliderMounts
    /\ UNCHANGED << variant, pc, indexType, excluded, liveCharts, chartsMade, callMount,
                    callOptions, callAggregated, callReturned, chartOptions, liveBefore,
                    tableVars, orchVars, timerVars, slideVars, paletteVars, resolveVars, builderVars, aggVars >>

NextRender == SetupChart \/ ReplaceSlider

SpecRender == InitRender /\ [][NextRender]_vars

(***************************************************************************)
(* Table renderer specification: one call of renderTable on headers and    *)
(* rows drawn from small sets                                              *)
(***************************************************************************)

HeadersTried ==
    { << >>, << "Weekly Change" >>,
      << "ko[Route]", "Current Index", "Previous Index", "Weekly Change" >> }

\* weekly_change as the JSON may carry it: missing, or with value and
\* percentage a text, null or missing
WeeklyChangesTried ==
    { [ present |-> FALSE, value |-> Undefined, percentage |-> Undefined, color_class |-> Null ] }
    \cup { [ present |-> TRUE, value |-> val, percentage |-> pct,
             color_class |-> IF val = "-3" THEN "text-blue-500" ELSE Null ] :
             val \in { "12.5", "-3", Null, Undefined }, pct \in { "0.5%", Null, Undefined } }

TableRowsTried ==
    { [ route |-> RouteFor("KCCI", << "ko[Composite Index]" >>), current_index |-> "1100",
        previous_index |-> "1090", weekly_change |-> wc ] : wc \in WeeklyChangesTried }
    \cup { [ route |-> RouteFor("KCCI", << "ko[US West Coast]" >>), current_index |-> "",
             previous_index |-> Null, weekly_change |-> wc ] :
             wc \in { w \in WeeklyChangesTried : w.present /\ w.value = "12.5" } }

InitTable ==
    /\ variant \in Variants
    /\ pc = "table"
    /\ indexType = "KCCI"
    /\ excluded = {}
    /\ tableHeaders \in HeadersTried
    /\ containerPresent \in BOOLEAN
    /\ container = InitialMarkup
    /\ tableThrew = FALSE
    /\ chartData = << >>
    /\ \E n \in 0..MaxTableRows : tableRows \in [ 1..n -> TableRowsTried ]
    /\ datasets = << >>
    /\ emittedRows = << >>
    /\ log = << >>
    /\ RenderFresh
    /\ OrchFresh
    /\ TimerFresh
    /\ SlideFresh
    /\ PaletteFresh
    /\ ResolveFresh
    /\ AggFresh

RenderTable ==
    /\ pc = "table"
    /\ LET r == IF variant = "modules"
                THEN renderTable(containerPresent, container, tableHeaders, tableRows)
                ELSE renderTable_inline(containerPresent, container, tableHeaders, tableRows)
       IN /\ container' = r.container
          /\ tableThrew' = r.threw
    /\ pc' = "rendered"
    /\ UNCHANGED << variant, indexType, excluded, tableHeaders, containerPresent, renderVars,
                    orchVars, timerVars, slideVars, paletteVars, resolveVars, builderVars, aggVars >>

NextTable == RenderTable

SpecTable == InitTable /\ [][NextTable]_vars

(***************************************************************************)
(* Orchestrator specification: one page load, the artifact and the         *)
(* document drawn from small sets                                          *)
(***************************************************************************)

Containers ==
    { ".chart-slider-container", ".table-slider-container", "weather-info",
      "exchange-rate-info" }

\* table_data as the artifact may carry it: complete, without a few
\* families, or without any
TableSectionsTried ==
    { IndexTypes \ M : M \in { X \in SUBSET IndexTypes : Cardinality(X) <= MaxMissing } }
    \cup { {} }

\* the element counts tried for a slider selector
SlideCountsTried == { 1, 2 }

InitOrch ==
    /\ variant \in Variants
    /\ pc = "Idle"
    /\ indexType = "KCCI"
    /\ excluded = {}
    /\ fetchOutcome = "pending"
    /\ chartDataEmpty \in BOOLEAN
    /\ tableSections \in TableSectionsTried
    /\ domContainers \in SUBSET Containers
    /\ shown = [ s \in Slots |-> "initial" ]
    /\ uncaught = FALSE
    /\ fetchesIssued = 0
    /\ clockTimer = FALSE
    /\ clockTicks = 0
    /\ tickedIn = {}
    /\ slideCounts \in [ SliderSelectors -> SlideCountsTried ]
    /\ sliderTimers = {}
    /\ SlideFresh
    /\ RenderFresh
    /\ TableFresh
    /\ PaletteFresh
    /\ ResolveFresh
    /\ BuilderFresh
    /\ AggFresh

\* the page calls the loader, which runs up to await fetch(...); the inline
\* build's DOMContentLoaded handler then arms the clock interval
StartFetch ==
    /\ pc = "Idle"
    /\ fetchesIssued < MaxFetches
    /\ pc' = "Fetching"
    /\ fetchesIssued' = fetchesIssued + 1
    /\ clockTimer' = (clockTimer \/ variant = "inline")
    /\ UNCHANGED << variant, indexType, excluded, renderVars, tableVars, orchVars,
                    clockTicks, tickedIn, slideCounts, sliderTimers, slideVars,
                    paletteVars, resolveVars, builderVars, aggVars >>

\* what the loader leaves behind when it ends: the inline build calls
\* setupSlider for both selectors as the last statements of its try block
Settled(r) ==
    /\ pc' = r.phase
    /\ shown' = r.shown
    /\ uncaught' = r.uncaught
    /\ sliderTimers' = IF variant = "inline" /\ r.phase = "Rendered"
                       THEN { sel \in SliderSelectors : setupSlider(slideCounts[sel]).armed }
                       ELSE sliderTimers

\* the fetch settles: a 2xx response takes the loader to await
\* response.json(), anything else to its catch block
FetchSettles ==
    /\ pc = "Fetching"
    /\ \E outcome \in { "response", "http", "network" } :
          /\ fetchOutcome' = outcome
          /\ IF outcome = "response"
             THEN /\ pc' = "Parsing"
                  /\ UNCHANGED << shown, uncaught, sliderTimers >>
             ELSE Settled(settle(variant, outcome, chartDataEmpty, tableSections,
                                 domContainers, shown))
    /\ UNCHANGED << variant, indexType, excluded, chartDataEmpty, tableSections,
                    domContainers, fetchesIssued, clockTimer, clockTicks, tickedIn,
                    slideCounts, slideVars, renderVars, tableVars, paletteVars, resolveVars,
                    builderVars, aggVars >>

\* response.json() settles and the rest of the loader runs to its end
BodyParsed ==
    /\ pc = "Parsing"
    /\ \E outcome \in { "ok", "invalid" } :
          /\ fetchOutcome' = outcome
          /\ Settled(settle(variant, outcome, chartDataEmpty, tableSections,
                            domContainers, shown))
    /\ UNCHANGED << variant, indexType, excluded, chartDataEmpty, tableSections,
                    domContainers, fetchesIssued, clockTimer, clockTicks, tickedIn,
                    slideCounts, slideVars, renderVars, tableVars, paletteVars, resolveVars,
                    builderVars, aggVars >>

\* the clock interval fires: updateWorldClocks runs between two callbacks of
\* the page, whatever the loader is waiting for
ClockTick ==
    /\ clockTimer
    /\ clockTicks < MaxClockTicks
    /\ clockTicks' = clockTicks + 1
    /\ tickedIn' = tickedIn \cup { pc }
    /\ UNCHANGED << variant, pc, indexType, excluded, renderVars, tableVars, orchVars,
                    fetchesIssued, clockTimer, slideCounts, sliderTimers, slideVars,
                    paletteVars, resolveVars, builderVars, aggVars >>

NextOrch == StartFetch \/ FetchSettles \/ BodyParsed \/ ClockTick

SpecOrch == InitOrch /\ [][NextOrch]_vars

(***************************************************************************)
(* Render pass specification: the family blocks of one pass, one after     *)
(* the other, each with its own table rows and time series                 *)
(***************************************************************************)

\* the route tried for a family: one the family's map declares
PassLabel(v, type) ==
    CHOOSE L \in DOMAIN MapOf(v)[type] : MapOf(v)[type][L] \notin { Null, Undefined }

\* the table rows tried for a family
PassRows(v, type) ==
    { [ route |-> RouteFor(type, PassLabel(v, type)), current_index |-> c ] :
        c \in CurrentIndexValues }

\* the time series tried for a family: one record holding the route's field
PassSeries(v, type) ==
    << [ date |-> << 2024, 1, 1 >>,
         vals |-> [ k \in { MapOf(v)[type][PassLabel(v, type)] } |-> 1000 ],
         nulls |-> {} ] >>

\* the blank sailing records tried: each of the first two series of the
\* chart holds a number or is absent
PassRecords ==
    { [ date |-> d, vals |-> [ k \in S |-> 2 ], nulls |-> {} ] :
        d \in { << 2024, 1, 15 >>, << 2024, 3, 1 >> },
        S \in SUBSET { "BLANK_SAILING_Gemini_Cooperation", "BLANK_SAILING_MSC" } }

\* the family block that follows the one just run, "none" after the last
NextFamily ==
    IF pc = "passStart" THEN SectionOrder[1]
    ELSE LET at == CHOOSE i \in 1..Len(SectionOrder) : SectionOrder[i] = indexType IN
         IF at < Len(SectionOrder) THEN SectionOrder[at + 1] ELSE "none"

\* renderTable(..., tableDataBySection.<family>.headers, ...) ends the block:
\* it throws when table_data lacks the family
BlockEnds(f) == pc' = IF f \in tableSections THEN "familyBuilt" ELSE "passFailed"

InitPass ==
    /\ variant \in Variants
    /\ pc = "passStart"
    /\ indexType = "KCCI"
    /\ excluded = {}
    /\ PaletteFresh
    /\ ResolveFresh
    /\ BuilderFresh
    /\ AggFresh
    /\ RenderFresh
    /\ TableFresh
    /\ TimerFresh
    /\ SlideFresh
    /\ fetchOutcome = "ok"
    /\ chartDataEmpty = FALSE
    /\ tableSections \in TableSectionsTried
    /\ domContainers = Containers
    /\ shown = [ s \in Slots |-> "initial" ]
    /\ uncaught = FALSE

\* a family block built by createDatasetsFromTableRows: the counter is
\* reset, the series sorted, the datasets built
BuildFamily ==
    /\ pc \in { "passStart", "familyBuilt" }
    /\ NextFamily \notin { "BLANK_SAILING", "none" }
    /\ indexType' = NextFamily
    /\ \E n \in 0..MaxRows : \E rows \in [ 1..n -> PassRows(variant, NextFamily) ] :
          LET r == createDatasetsFromTableRows(variant, NextFamily, {},
                                               PassSeries(variant, NextFamily), rows,
                                               resetColorIndex) IN
          /\ tableRows' = rows
          /\ chartData' = PassSeries(variant, NextFamily)
          /\ datasets' = r.datasets
          /\ emittedRows' = r.emittedRows
          /\ log' = r.log
          /\ colorIndex' = r.colorIndex
    /\ prevIndex' = resetColorIndex
    /\ rawData' = << >>
    /\ givenData' = << >>
    /\ aggregated' = [ aggregatedData |-> << >>, monthlyLabels |-> << >> ]
    /\ BlockEnds(NextFamily)
    /\ UNCHANGED << variant, excluded, nextCalls, lastOp, lastColor, lastBorder, resetAfterUse,
                    monthsToDisplay, tzWest, today, resolveVars, pageVars >>

\* the blank sailing block: the series is aggregated by month, the counter
\* is reset and the array literal of six datasets is evaluated and filtered
BuildBlankSailing ==
    /\ pc = "familyBuilt"
    /\ NextFamily = "BLANK_SAILING"
    /\ indexType' = "BLANK_SAILING"
    /\ \E n \in 0..MaxAggRecords : \E given \in [ 1..n -> PassRecords ] :
          LET agg == IF variant = "modules"
                     THEN aggregateDataByMonth(given, 12, tzWest)
                     ELSE aggregateDataByMonth_inline(given, 12, tzWest)
              r == blankSailingDatasets(variant, agg.aggregatedData, resetColorIndex)
          IN
          /\ givenData' = given
          /\ rawData' = sortByDate(given)
          /\ aggregated' = agg
          /\ datasets' = r.datasets
          /\ colorIndex' = r.colorIndex
    /\ prevIndex' = resetColorIndex
    /\ tableRows' = << >>
    /\ chartData' = << >>
    /\ emittedRows' = << >>
    /\ log' = << >>
    /\ BlockEnds("BLANK_SAILING")
    /\ UNCHANGED << variant, excluded, nextCalls, lastOp, lastColor, lastBorder, resetAfterUse,
                    monthsToDisplay, tzWest, today, resolveVars, pageVars >>

NextPass == BuildFamily \/ BuildBlankSailing

SpecPass == InitPass /\ [][NextPass]_vars

(***************************************************************************)
(* Slide rotation specification: the carousels of chart.js ("carousel"),   *)
(* the sliders of the inline build and the slider of the stand-alone page  *)
(* ("standalone"), on documents with 0..MaxSlides slides                   *)
(***************************************************************************)

SlideVariants == { "carousel", "inline", "standalone" }

\* the carousels of a page, in the order they are set up
Rotators(v) ==
    IF v = "carousel" THEN << "topInfoCarousel", "mainChartsCarousel" >>
    ELSE IF v = "inline" THEN << ".chart-slide", ".top-info-slide" >>
    ELSE << ".slide" >>

RotatorSet(v) == { Rotators(v)[i] : i \in 1..Len(Rotators(v)) }

InitSlides ==
    /\ variant \in SlideVariants
    /\ pc = "document"
    /\ indexType = "KCCI"
    /\ excluded = {}
    /\ totalItems \in [ RotatorSet(variant) -> 0..MaxSlides ]
    /\ currentIndex = [ c \in RotatorSet(variant) |-> Num(0) ]
    /\ interval = [ c \in RotatorSet(variant) |-> 0 ]
    /\ carouselHandle = [ c \in RotatorSet(variant) |-> 0 ]
    /\ armedTimers = [ c \in RotatorSet(variant) |-> {} ]
    /\ timersMade = 0
    /\ ticksSinceMove = [ c \in RotatorSet(variant) |-> 0 ]
    /\ moveIndex = [ c \in RotatorSet(variant) |-> 0 ]
    /\ dotClicks = 0
    /\ PaletteFresh
    /\ ResolveFresh
    /\ BuilderFresh
    /\ AggFresh
    /\ RenderFresh
    /\ TableFresh
    /\ OrchFresh
    /\ TimerFresh

\* the end of the loader of chart.js: topInfoCarouselInterval =
\* setupCarousel(...), then mainChartsCarouselInterval = setupCarousel(...)
SetupCarousels ==
    /\ pc = "document"
    /\ variant = "carousel"
    /\ LET top  == setupCarousel(totalItems["topInfoCarousel"], timersMade)
           main == setupCarousel(totalItems["mainChartsCarousel"], top.made)
           closure(c) == IF c = "topInfoCarousel" THEN top ELSE main
       IN /\ currentIndex' = [ c \in RotatorSet(variant) |-> closure(c).currentIndex ]
          /\ interval' = [ c \in RotatorSet(variant) |-> closure(c).interval ]
          /\ carouselHandle' = [ c \in RotatorSet(variant) |-> closure(c).returned ]
          /\ armedTimers' = [ c \in RotatorSet(variant) |-> closure(c).armed ]
          /\ timersMade' = main.made
    /\ pc' = "rotating"
    /\ UNCHANGED << variant, indexType, excluded, totalItems, ticksSinceMove, moveIndex,
                    dotClicks, renderVars, tableVars, orchVars, timerVars, paletteVars,
                    resolveVars, builderVars, aggVars >>

\* the end of the loader of the inline build: setupSlider('.chart-slide',
\* 5000), then setupSlider('.top-info-slide', 7000); the stand-alone page
\* shows slide 0 and arms its interval whatever the number of slides
SetupSliders ==
    /\ pc = "document"
    /\ variant \in { "inline", "standalone" }
    /\ LET arms(c) == IF variant = "inline" THEN setupSlider(totalItems[c]).armed ELSE TRUE
           first == Rotators(variant)[1]
           idOf(c) == IF c = first \/ ~arms(first) THEN timersMade + 1 ELSE timersMade + 2
       IN /\ armedTimers' = [ c \in RotatorSet(variant) |->
                                 IF arms(c) THEN { idOf(c) } ELSE {} ]
          /\ timersMade' = timersMade + Cardinality({ c \in RotatorSet(variant) : arms(c) })
    /\ currentIndex' = [ c \in RotatorSet(variant) |-> Num(0) ]
    /\ pc' = "rotating"
    /\ UNCHANGED << variant, indexType, excluded, totalItems, interval, carouselHandle,
                    ticksSinceMove, moveIndex, dotClicks, renderVars, tableVars, orchVars,
                    timerVars, paletteVars, resolveVars, builderVars, aggVars >>

\* an armed interval fires: nextSlide of its carousel runs
NextSlide ==
    /\ pc = "rotating"
    /\ \E c \in RotatorSet(variant) :
          /\ armedTimers[c] # {}
          /\ ticksSinceMove[c] < MaxTicks
          /\ currentIndex' = [ currentIndex EXCEPT ![c] = nextSlide(@, totalItems[c]) ]
          /\ ticksSinceMove' = [ ticksSinceMove EXCEPT ![c] = @ + 1 ]
    /\ UNCHANGED << variant, pc, indexType, excluded, totalItems, interval, carouselHandle,
                    armedTimers, timersMade, moveIndex, dotClicks, renderVars, tableVars,
                    orchVars, timerVars, paletteVars, resolveVars, builderVars, aggVars >>

\* dot i of a carousel of chart.js is clicked: moveToSlide(i), resetInterval()
DotClick ==
    /\ pc = "rotating"
    /\ variant = "carousel"
    /\ dotClicks < MaxDotClicks
    /\ \E c \in RotatorSet(variant) : \E i \in 0..(totalItems[c] - 1) :
          LET r == resetInterval(armedTimers[c], interval[c], timersMade) IN
          /\ currentIndex' = [ currentIndex EXCEPT ![c] = Num(i) ]
          /\ armedTimers' = [ armedTimers EXCEPT ![c] = r.armed ]
          /\ interval' = [ interval EXCEPT ![c] = r.interval ]
          /\ timersMade' = r.made
          /\ ticksSinceMove' = [ ticksSinceMove EXCEPT ![c] = 0 ]
          /\ moveIndex' = [ moveIndex EXCEPT ![c] = i ]
    /\ dotClicks' = dotClicks + 1
    /\ UNCHANGED << variant, pc, indexType, excluded, totalItems, carouselHandle,
                    renderVars, tableVars, orchVars, timerVars, paletteVars, resolveVars,
                    builderVars, aggVars >>

\* the beforeunload handler of chart.js:
\* clearInterval(topInfoCarouselInterval), clearInterval(mainChartsCarouselInterval)
BeforeUnload ==
    /\ pc = "rotating"
    /\ variant = "carousel"
    /\ armedTimers' = [ c \in RotatorSet(variant) |-> armedTimers[c] \ { carouselHandle[c] } ]
    /\ pc' = "unloaded"
    /\ UNCHANGED << variant, indexType, excluded, totalItems, currentIndex, interval,
                    carouselHandle, timersMade, ticksSinceMove, moveIndex, dotClicks,
                    renderVars, tableVars, orchVars, timerVars, paletteVars, resolveVars,
                    builderVars, aggVars >>

NextSlides == SetupCarousels \/ SetupSliders \/ NextSlide \/ DotClick \/ BeforeUnload

SpecSlides == InitSlides /\ [][NextSlides]_vars

(***************************************************************************)
(* Claims                                                                  *)
(***************************************************************************)

\* C7: counting from start-up or from the most recent reset, the k-th call of
\* next() returns palette[(k-1) mod paletteSize]; the first next() after a
\* reset returns palette[0] whatever was called before.
C7_KthNextReturnsPaletteEntry ==
    lastOp = "next" =>
        lastColor = Palette(variant)[((nextCalls - 1) % Len(Palette(variant))) + 1]

\* C7 witness: after a reset that followed earlier calls, next() has been
\* called once more than the palette is long and is back at palette[0]
C7_Witness ==
    /\ lastOp = "next"
    /\ resetAfterUse
    /\ nextCalls = Len(Palette(variant)) + 1
    /\ lastColor = Palette(variant)[1]


\* C8: after at least one next(), nextBorder() returns the border color at
\* the palette index of the fill color the most recent next() returned,
\* (counter-1) mod paletteSize, and leaves the counter as it was.
C8_BorderPairsWithLastFill ==
    (lastOp = "nextBorder" /\ nextCalls >= 1) =>
        /\ lastBorder = BorderPalette(variant)[((colorIndex - 1) % Len(BorderPalette(variant))) + 1]
        /\ colorIndex = prevIndex

\* C6: for every family F and every label L declared in F's map, stripping
\* the section prefix from the route F + "_" + L gives back exactly L, and
\* the row resolves to the field L is mapped to.
C6_StripGivesDeclaredLabel ==
    (pc = "resolved" /\ intendedLabel \in DOMAIN MapOf(variant)[indexType]
                     /\ route = RouteFor(indexType, intendedLabel)) =>
        /\ routeLabel = intendedLabel
        /\ dataKey = MapOf(variant)[indexType][intendedLabel]

\* C9: for every family and every label that is not in the family's declared
\* label set (the empty label of a route without underscore included),
\* resolution yields undefined.
C9_UnknownLabelIsUndefined ==
    (pc = "resolved" /\ routeLabel \notin DOMAIN MapOf(variant)[indexType]) =>
        dataKey = Undefined

\* what the builder's map gives for table row i of the call
DataKeyOfRow(i) ==
    resolve(WithExcluded(MapOf(variant)[indexType], excluded),
            stripSectionPrefix(tableRows[i].route))

\* the console lines written for table row i
LinesOfRow(i) == { k \in 1..Len(log) : log[k].row = i }

\* table row i produced a dataset
Emitted(i) == \E k \in 1..Len(emittedRows) : emittedRows[k] = i

\* C4: the dataset builder never returns a dataset with zero points, and no
\* point of a returned dataset has a null or undefined y.
C4_NoEmptyDataset ==
    pc = "built" =>
        \A k \in 1..Len(datasets) :
            /\ Len(datasets[k].data) >= 1
            /\ \A n \in 1..Len(datasets[k].data) :
                   datasets[k].data[n].y \notin { NullV, UndefinedV }

\* C4 witness: one call returned a dataset that lost a null point and
\* dropped another mapped row whose series had no valid point at all
C4_Witness ==
    /\ pc = "built"
    /\ \E k \in 1..Len(datasets) :
          /\ Len(datasets[k].data) < Len(chartData)
          /\ \E n \in 1..Len(chartData) :
                ItemGet(chartData[n], DataKeyOfRow(emittedRows[k])) = NullV
    /\ \E k \in 1..Len(log) : log[k].kind = "noValidPoints"

\* C5: a table row whose current_index is the empty string gets no dataset,
\* whatever the time series holds and whatever its route maps to.
C5_EmptyCurrentIndexNoDataset ==
    pc = "built" =>
        \A i \in 1..Len(tableRows) :
            tableRows[i].current_index = Str("") => ~Emitted(i)

\* C5 witness: a row with current_index "" whose field has valid points in
\* the series stayed without a dataset while a row with the same route and
\* a numeric current_index got one
C5_Witness ==
    /\ pc = "built"
    /\ \E i, j \in 1..Len(tableRows) :
          /\ tableRows[i].current_index = Str("")
          /\ tableRows[j].current_index # Str("")
          /\ tableRows[i].route = tableRows[j].route
          /\ Emitted(j)
          /\ ~Emitted(i)

\* C10: a row whose label maps to null gets no dataset and no warning (an
\* info line only); a row whose label is unmapped (undefined) gets no
\* dataset and a warning; the two outcomes stay distinct.
C10_NullAndUndefinedKeptApart ==
    pc = "built" =>
        \A i \in 1..Len(tableRows) :
            /\ DataKeyOfRow(i) = Null =>
                  /\ ~Emitted(i)
                  /\ \A k \in LinesOfRow(i) : log[k].level # "warn"
            /\ DataKeyOfRow(i) = Undefined =>
                  /\ ~Emitted(i)
                  /\ \E k \in LinesOfRow(i) : log[k].level = "warn"

\* C10 witness: one call met a row mapped to null and a row with an unmapped
\* label, and wrote an info line for the first and a warning for the second
C10_Witness ==
    /\ pc = "built"
    /\ \E i, j \in 1..Len(tableRows) :
          /\ DataKeyOfRow(i) = Null
          /\ DataKeyOfRow(j) = Undefined
          /\ \E k \in LinesOfRow(i) : log[k].level = "info"
          /\ \E k \in LinesOfRow(j) : log[k].level = "warn"

\* the month of the latest record handed to the aggregator, as the browser
\* reads its date
LatestMonth ==
    LET latest == CHOOSE i \in 1..Len(givenData) :
                      \A j \in 1..Len(givenData) : ~DateBefore(givenData[i].date, givenData[j].date)
    IN LocalMonth(givenData[latest].date, tzWest)

\* the records handed over whose date, as the browser reads it, falls in
\* month mi
GivenInMonth(mi) == SelectSeq(givenData, LAMBDA it : LocalMonth(it.date, tzWest) = mi)

\* the month an aggregated record stands for
MonthOfRecord(r) == MonthIndex(r.date[1], r.date[2])

\* the fields present on any record handed over
GivenKeys == UNION { KeysOf(givenData[i]) : i \in 1..Len(givenData) }

\* C1: for every non-empty time series and monthsToDisplay >= 1 the
\* aggregator returns exactly monthsToDisplay month records, one for each
\* consecutive calendar month of latestMonth - monthsToDisplay + 1 ..
\* latestMonth, ascending, without gaps.
C1_ExactlyMonthsToDisplayRecords ==
    (pc = "aggregated" /\ variant \in { "modules", "inline" } /\ Len(givenData) > 0) =>
        /\ Len(aggregated.aggregatedData) = monthsToDisplay
        /\ \A i \in 1..Len(aggregated.aggregatedData) :
               MonthOfRecord(aggregated.aggregatedData[i]) = LatestMonth - monthsToDisplay + i

\* C2: in every aggregated month record each numeric field is the mean, sum
\* divided by count, of the field's non-null values over the source records
\* dated in that month, never the undivided sum.
C2_FieldsAreMeans ==
    pc = "aggregated" =>
        \A i \in 1..Len(aggregated.aggregatedData) :
            LET r == aggregated.aggregatedData[i]
                src == GivenInMonth(MonthOfRecord(r))
            IN \A k \in DOMAIN r.vals :
                   /\ CountOf(src, k) > 0
                   /\ FracEq(r.vals[k], Frac(SumOf(src, k), CountOf(src, k)))

\* C3: for every month of the output and every field without a non-null
\* value in any record of that month, the month record holds null for the
\* field: not 0, and not a missing key.
C3_AbsentFieldIsNull ==
    pc = "aggregated" =>
        \A i \in 1..Len(aggregated.aggregatedData) :
            LET r == aggregated.aggregatedData[i]
                src == GivenInMonth(MonthOfRecord(r))
            IN \A k \in GivenKeys : CountOf(src, k) = 0 => k \in r.nulls

\* table row i has a label that maps to a field name of the time series
MappedToField(i) == DataKeyOfRow(i) \notin { Null, Undefined, InheritedFunction }

\* C11 (as stated): a row whose label maps to a real field but whose
\* current_index is "" gets no dataset and no warning about a missing mapping.
C11_EmptyIndexNoMappingWarning ==
    pc = "built" =>
        \A i \in 1..Len(tableRows) :
            (MappedToField(i) /\ tableRows[i].current_index = Str("")) =>
                /\ ~Emitted(i)
                /\ \A k \in LinesOfRow(i) :
                       ~(log[k].level = "warn" /\ log[k].kind = "noDataKeyOrEmptyIndex")

\* C11 (amended): a row whose label maps to a real field but whose
\* current_index is "" gets no dataset and exactly one console line, the
\* warning "No dataKey found or current_index is empty" that an unmapped row
\* also gets.
C11_EmptyIndexSkippedWithSharedWarning ==
    pc = "built" =>
        \A i \in 1..Len(tableRows) :
            (MappedToField(i) /\ tableRows[i].current_index = Str("")) =>
                /\ ~Emitted(i)
                /\ Cardinality(LinesOfRow(i)) = 1
                /\ \A k \in LinesOfRow(i) :
                       log[k].level = "warn" /\ log[k].kind = "noDataKeyOrEmptyIndex"

\* C11 witness: a mapped row with current_index "" whose field has a number
\* in the series was skipped with that warning
C11_Witness ==
    /\ pc = "built"
    /\ \E i \in 1..Len(tableRows) :
          /\ MappedToField(i)
          /\ tableRows[i].current_index = Str("")
          /\ \E n \in 1..Len(chartData) :
                ItemGet(chartData[n], DataKeyOfRow(i)) \notin { NullV, UndefinedV }
          /\ ~Emitted(i)
          /\ \E k \in LinesOfRow(i) : log[k].kind = "noDataKeyOrEmptyIndex"

\* C12: the returned datasets follow the order of the table rows that
\* produced them (the producing rows have strictly increasing positions) and
\* each dataset's label is the stripped route of its row.
C12_DatasetsFollowRowOrder ==
    pc = "built" =>
        /\ Len(emittedRows) = Len(datasets)
        /\ \A k \in 1..Len(datasets) :
               /\ emittedRows[k] \in 1..Len(tableRows)
               /\ datasets[k].label = stripSectionPrefix(tableRows[emittedRows[k]].route)
        /\ \A j, k \in 1..Len(datasets) : j < k => emittedRows[j] < emittedRows[k]

\* C12 witness: a call returned two datasets with different labels, the
\* trade lane's before the composite index's, as their rows stood in the table
C12_Witness ==
    /\ pc = "built"
    /\ Len(datasets) = 2
    /\ datasets[1].label = << "ko[US West Coast]" >>
    /\ datasets[2].label = << "ko[Composite Index]" >>
    /\ tableRows[1].route = RouteFor("KCCI", << "ko[US West Coast]" >>)

\* the labels that name a family's aggregate index in the route maps: the
\* composite index, FBX's global index, the blank sailing total and MBCI's
\* single index
AggregateLabels ==
    { << "ko[Composite Index]" >>, << "ko[Global Container Freight Index]" >>,
      << "Total" >>, << "MBCI" >> }

\* the composite/total marker of the current family, among the labels its
\* map declares
FamilyMarkers == DOMAIN MapOf(variant)[indexType] \cap AggregateLabels

\* C13: every emitted dataset has borderWidth 2 exactly when its label is
\* the composite/total marker of its own family, and borderWidth 1 otherwise.
C13_ThickExactlyForFamilyMarker ==
    pc = "built" =>
        \A k \in 1..Len(datasets) :
            datasets[k].borderWidth = IF datasets[k].label \in FamilyMarkers THEN 2 ELSE 1

\* C14: after any sequence of setupChart calls every canvas has at most one
\* live chart instance bound to it.
C14_AtMostOneLiveChartPerMount ==
    \A m \in MountIds : Cardinality(getChart(liveCharts, m)) <= 1

\* C14 witness: setupChart ran on a canvas that had a live chart, destroyed
\* it and bound a new one
C14_Witness ==
    /\ callReturned = "chart"
    /\ \E c \in liveBefore : c.mount = callMount /\ c \notin liveCharts
    /\ \E c \in liveCharts : c.mount = callMount /\ c \notin liveBefore

\* C15: a setupChart call for a canvas the document does not hold returns
\* null, creates no chart and destroys none.
C15_MissingMountIsNoOp ==
    [][ (domMounts' = domMounts /\ callMount' \notin domMounts) =>
            /\ callReturned' = "null"
            /\ liveCharts' = liveCharts
            /\ chartsMade' = chartsMade ]_vars

\* C15 witness: setupChart returned null for a canvas that had left the
\* document while a chart made on it earlier was still alive
C15_Witness ==
    /\ callReturned = "null"
    /\ callMount \notin domMounts
    /\ liveBefore = liveCharts
    /\ \E c \in liveCharts : c.mount = callMount

\* C16: in the options handed to the charting library every leaf of the
\* caller's options carries the caller's value, whatever isAggregated is.
C16_OverrideWinsOnEveryLeaf ==
    callReturned = "chart" =>
        \A p \in DOMAIN callOptions :
            p \in DOMAIN chartOptions /\ chartOptions[p] = callOptions[p]

\* C17: with the container in the document, renderTable shows the "no data"
\* placeholder whenever headers is empty or rows is empty, and does not throw.
C17_PlaceholderWhenHeadersOrRowsEmpty ==
    (pc = "rendered" /\ containerPresent /\ (Len(tableHeaders) = 0 \/ Len(tableRows) = 0)) =>
        container = Placeholder /\ ~tableThrew

\* row i has both weekly_change.value and weekly_change.percentage, neither
\* missing nor null
BothPresent(i) ==
    LET wc == tableRows[i].weekly_change IN
    wc.present /\ wc.value \notin { Null, Undefined } /\ wc.percentage \notin { Null, Undefined }

\* the text "value (percentage)" of row i, the value as given or with two decimals
ValueAndPercentage(i) ==
    LET wc == tableRows[i].weekly_change IN
    { << x, " (", wc.percentage, ")" >> : x \in { wc.value, toFixed2(wc.value) } }

\* C18: in a rendered table, a cell under a header containing "Weekly Change"
\* shows "value (percentage)" when the row has both and "-" when either is
\* missing or null.
C18_WeeklyChangeCell ==
    (pc = "rendered" /\ container.kind = "table") =>
        \A i \in 1..Len(container.cells) :
            \A j \in 1..Len(container.cells[i]) :
                (j <= Len(tableHeaders) /\ includes(tableHeaders[j], "Weekly Change")) =>
                    IF BothPresent(i)
                    THEN container.cells[i][j] \in ValueAndPercentage(i)
                    ELSE container.cells[i][j] = << "-" >>

\* the slots whose error text the build's catch block is in charge of
CaughtSlots ==
    UNION { SlotsIn(CatchTargets(variant)[i]) : i \in 1..Len(CatchTargets(variant)) }

\* C19: when the fetch of the artifact fails the page reaches FetchFailed
\* with every slot of the catch block showing its error text, and handling
\* the failure raises no further error, also with a container missing.
C19_FetchFailureShowsPlaceholders ==
    fetchOutcome \in { "http", "network" } =>
        /\ pc = "FetchFailed"
        /\ ~uncaught
        /\ \A i \in 1..Len(CatchTargets(variant)) :
              LET target == CatchTargets(variant)[i] IN
              (target = ".table-container" \/ target \in domContainers) =>
                  \A sl \in SlotsIn(target) : shown[sl] = "error"

\* C20: when the artifact lacks table_data for one family, every other
\* family's chart and table are rendered and no slot shows the global error
\* text.
C20_SectionFailureStaysLocal ==
    (fetchOutcome = "ok" /\ ~chartDataEmpty /\ domContainers = Containers
        /\ Cardinality(IndexTypes \ tableSections) = 1) =>
        /\ \A f \in tableSections :
              shown[<< "chart", f >>] = "rendered" /\ shown[<< "table", f >>] = "rendered"
        /\ \A sl \in Slots : shown[sl] # "error"
        /\ pc # "RenderFailed"

\* C24: every aggregated month record carries a value for every numeric
\* field that some input record of the month holds, whichever record of the
\* input it is on: the fields of the output are not taken from the first
\* record alone.
C24_FieldsOfEveryRecordCarried ==
    pc = "aggregated" =>
        \A i \in 1..Len(aggregated.aggregatedData) :
            LET r == aggregated.aggregatedData[i]
                src == GivenInMonth(MonthOfRecord(r))
            IN \A k \in GivenKeys : CountOf(src, k) > 0 => k \in DOMAIN r.vals

\* C25: the aggregator leaves the array it is handed as it was: the same
\* records in the same order.
C25_InputArrayUnchanged ==
    pc = "aggregated" => rawData = givenData

\* C27: in one call of the builder that starts with the palette counter at 0,
\* the k-th dataset emitted, counting from 0, is filled with palette entry
\* k mod the palette size; a row that is skipped draws no colour.
C27_KthDatasetHasKthColor ==
    pc = "built" =>
        \A k \in 1..Len(datasets) :
            datasets[k].backgroundColor
                = Palette(variant)[((k - 1) % Len(Palette(variant))) + 1]

\* a call in which the first row was skipped and the second row emitted
C27_Witness ==
    /\ pc = "built"
    /\ prevIndex = 0
    /\ Len(tableRows) = 2
    /\ emittedRows = << 2 >>
    /\ datasets[1].backgroundColor = Palette(variant)[1]

\* C21: no timer of the page is armed before the first render pass has
\* ended: while the loader is Idle, Fetching or waiting for the body, neither
\* the 1-second clock interval nor a slide-rotation interval is armed.
C21_TimersArmedAfterRendering ==
    pc \in { "Idle", "Fetching", "Parsing" } => (~clockTimer /\ sliderTimers = {})

\* C22: fetch is called exactly once per page load; once the fetch has
\* settled, in success or in failure, the loader never fetches again.
C22_FetchIssuedOnce ==
    /\ fetchesIssued <= 1
    /\ pc # "Idle" => fetchesIssued = 1

\* a page whose fetch failed and whose catch block has run
C22_Witness ==
    /\ pc = "FetchFailed"
    /\ fetchOutcome \in { "http", "network" }
    /\ fetchesIssued = 1

\* C23: no clock callback runs between the moment the fetch resolves and the
\* end of the render pass.
C23_NoCallbackBeforeRenderEnds ==
    "Parsing" \notin tickedIn

\* C26: every family block of a render pass draws its first colour with the
\* palette counter at 0, so the first dataset of every family's chart is
\* filled with the first palette colour.
C26_FirstDatasetHasFirstColor ==
    pc \in { "familyBuilt", "passFailed" } =>
        /\ prevIndex = 0
        /\ Len(datasets) > 0 => datasets[1].backgroundColor = Palette(variant)[1]

\* C28: a carousel of n >= 1 slides keeps its index in 0..n-1 with exactly
\* one slide active, and k ticks after the index was set to s it stands at
\* (s + k) mod n, so n ticks visit every slide once and return; a carousel
\* of no slides never gets an index that is not a number.
C28_RotationStaysInRange ==
    pc \in { "rotating", "unloaded" } =>
        \A c \in RotatorSet(variant) :
            IF totalItems[c] >= 1
            THEN /\ currentIndex[c]
                      = Num((moveIndex[c] + ticksSinceMove[c]) % totalItems[c])
                 /\ Cardinality(showSlide(currentIndex[c], totalItems[c])) = 1
            ELSE currentIndex[c] # NaNV

\* C29: whatever ticks and dot clicks have happened, a carousel has at most
\* one interval armed.
C29_AtMostOneTimerPerCarousel ==
    \A c \in RotatorSet(variant) : Cardinality(armedTimers[c]) <= 1

\* a carousel whose dot was clicked: the interval armed at set-up is gone and
\* the one armed by the click is the only one
C29_Witness ==
    /\ variant = "carousel"
    /\ pc = "rotating"
    /\ dotClicks >= 1
    /\ \E c \in RotatorSet(variant) :
          /\ interval[c] # carouselHandle[c]
          /\ armedTimers[c] = { interval[c] }

\* C30: once the page has unloaded no carousel has an interval armed,
\* whatever ticks and dot clicks came before.
C30_UnloadClearsArmedTimers ==
    pc = "unloaded" => \A c \in RotatorSet(variant) : armedTimers[c] = {}

====
